---- MODULE Spec2Model ----
(***************************************************************************)
(* A model of the good-night "dreaming" pipeline:                          *)
(*   - Spec          one cycle of DreamingOrchestrator.run(): extraction,  *)
(*                   Stage A (per-project agents joined by gather),        *)
(*                   Stage B, Stage C, the state store, the vector index   *)
(*                   and the files written;                                *)
(*   - SpecRunAgent  one call of the provider's run_agent turn loop with   *)
(*                   its message history;                                  *)
(*   - SpecAgents    the Stage A agents of one connector running           *)
(*                   concurrently, the event-emitting tool wrapper and     *)
(*                   the event stream they share.                          *)
(***************************************************************************)
EXTENDS Integers, Sequences, FiniteSets, TLC

(***************************************************************************)
(* Bounds of the model                                                     *)
(***************************************************************************)
MaxConnectors == 2      \* connectors enabled in one cycle
MaxNow == 12            \* the wall clock does not pass this value
MaxActions == 1         \* actions of one finalized resolution
MaxTurns == 2           \* AgentConfig.max_turns of the modelled agents
MaxEvents == 4          \* events of the shared stream kept in view
MaxCalls == 2           \* tool calls carried by one assistant message
MaxAgentCalls == 1      \* the same, for the concurrent Stage A agents
MaxAgents == 2          \* project groups (agents) of one Stage A
MaxBound == 3           \* _max_events of the modelled stream
MaxEmits == 3           \* emit calls between two start() calls
MaxSubs == 2            \* subscriptions held at one time
MaxDrafts == 2          \* draft actions one Stage C agent creates
MaxIssues == 3          \* issues given to deduplicate_issues
MaxReports == 2         \* per-project reports of one Stage A
MaxToolCalls == 3       \* tool calls of one Stage A or Stage B agent
MaxIds == 2             \* issues, or stored resolutions, looked up by id
MaxMatches == 2         \* scores one comparison of an issue works on
MaxLines == 3           \* lines of an existing preferences file
MaxItems == 2           \* items of the preference of one action
MaxSessionLines == 3    \* lines of one session file
MaxFiles == 3           \* session files of the projects directory
MaxLimit == 2           \* limit of a paginated extraction
MaxCycles == 2          \* cycles that run on one runtime directory
MaxBatch == 2           \* conversations of the batch of one cycle

(***************************************************************************)
(* Program constants                                                       *)
(***************************************************************************)
initial_lookback_days == 7      \* DreamingConfig.initial_lookback_days

max_events == 1000              \* AgentEventStream(max_events=1000)

None == 0                       \* Python None where a timestamp or count is optional

ConnIds == 1..MaxConnectors

Max(S) == CHOOSE x \in S : \A y \in S : y <= x
Min(S) == CHOOSE x \in S : \A y \in S : x <= y

(***************************************************************************)
(* providers/types.py: TokenUsage                                          *)
(***************************************************************************)
Usage(i, o, cr, cw) ==
    [input_tokens |-> i, output_tokens |-> o,
     cache_read_tokens |-> cr, cache_write_tokens |-> cw]

TokenUsage == Usage(0, 0, 0, 0)

\* TokenUsage.__add__
AddUsage(a, b) ==
    Usage(a.input_tokens + b.input_tokens,
          a.output_tokens + b.output_tokens,
          a.cache_read_tokens + b.cache_read_tokens,
          a.cache_write_tokens + b.cache_write_tokens)

SubUsage(a, b) ==
    Usage(a.input_tokens - b.input_tokens,
          a.output_tokens - b.output_tokens,
          a.cache_read_tokens - b.cache_read_tokens,
          a.cache_write_tokens - b.cache_write_tokens)

\* what one run_agent call can report as its usage
UsageChoices == {Usage(2, 1, 1, 1)}

(***************************************************************************)
(* storage/state.py                                                        *)
(***************************************************************************)
ConnectorState ==
    [present |-> TRUE, last_processed |-> None, conversations_processed |-> 0,
     last_run |-> None]

\* a connector id that is not a key of ProcessingState.connectors
Absent == [ConnectorState EXCEPT !.present = FALSE]

DreamingState ==
    [last_run |-> None, total_runs |-> 0, last_run_id |-> "None",
     issues_found_total |-> 0, resolutions_generated_total |-> 0]

ProcessingState ==
    [connectors |-> [c \in ConnIds |-> Absent], dreaming |-> DreamingState]

\* a state.json left by an earlier cycle that processed connector 1
EarlierState ==
    [connectors |-> [c \in ConnIds |->
                       IF c = 1
                       THEN [present |-> TRUE, last_processed |-> 9,
                             conversations_processed |-> 1, last_run |-> 9]
                       ELSE Absent],
     dreaming |-> [last_run |-> 9, total_runs |-> 1, last_run_id |-> "earlier",
                   issues_found_total |-> 0, resolutions_generated_total |-> 0]]

\* state.json: missing, or holding a serialized ProcessingState
NoFile == [exists |-> FALSE, doc |-> ProcessingState]
File(doc) == [exists |-> TRUE, doc |-> doc]

\* StateManager._state: None until the first use
Unloaded == [loaded |-> FALSE, doc |-> ProcessingState]
Loaded(doc) == [loaded |-> TRUE, doc |-> doc]

\* StateManager._load_state: a missing file gives a fresh ProcessingState
load_state(file) == IF file.exists THEN file.doc ELSE ProcessingState

\* StateManager.state: loaded from disk on first use only
StateOf(mem, file) == IF mem.loaded THEN mem.doc ELSE load_state(file)

\* StateManager.get_connector_state: inserts a default record in memory
get_connector_state(st, c) ==
    IF ~st.connectors[c].present
    THEN [st EXCEPT !.connectors[c] = ConnectorState]
    ELSE st

\* StateManager.update_connector_state (cursor is never passed by run())
update_connector_state(st, c, last_processed, conversations_processed, t) ==
    LET s1 == get_connector_state(st, c)
        s2 == IF last_processed # None
              THEN [s1 EXCEPT !.connectors[c].last_processed = last_processed]
              ELSE s1
    IN [s2 EXCEPT !.connectors[c].conversations_processed =
                      @ + conversations_processed,
                  !.connectors[c].last_run = t]

\* StateManager.update_dreaming_state
update_dreaming_state(st, run_id, issues_found, resolutions_generated, t) ==
    [st EXCEPT !.dreaming.last_run = t,
               !.dreaming.total_runs = @ + 1,
               !.dreaming.last_run_id = run_id,
               !.dreaming.issues_found_total = @ + issues_found,
               !.dreaming.resolutions_generated_total = @ + resolutions_generated]

(***************************************************************************)
(* connectors/claude_code.py: the session files a connector can find       *)
(***************************************************************************)
Session(sid, mtime, ended_at, wd) ==
    [session_id |-> sid, mtime |-> mtime, ended_at |-> ended_at,
     working_directory |-> wd]

S1 == Session(1, 8, 8, <<"a", "proj">>)
S2 == Session(2, 9, 9, <<"b", "proj">>)

\* contents of the projects directory when extraction reads it
SessionSets == {{}, {S1, S2}}

\* ClaudeCodeConnector.extract_conversations(since, cursor=None, limit):
\* the batches it can return (files of equal mtime sort either way)
extract_conversations(files, since, limit) ==
    LET matching == {f \in files : since = None \/ f.mtime >= since}
    IN IF limit # None /\ Cardinality(matching) > limit
       THEN {b \in SUBSET matching :
               /\ Cardinality(b) = limit
               /\ \A x \in b, y \in matching \ b : x.mtime >= y.mtime}
       ELSE {matching}

(***************************************************************************)
(* dreaming/merger.py                                                      *)
(***************************************************************************)
\* a confidence, in hundredths, as the quotient of two integers
Rational(num, den) == [num |-> num, den |-> den]

\* an issue as a Stage A agent reports it: severity and confidence as given,
\* no metadata
ReportedIssue(id, type, title, severity, confidence) ==
    [id |-> id, type |-> type, title |-> title, description |-> title,
     severity |-> severity, confidence |-> Rational(confidence, 1),
     metadata |-> <<>>]

\* an issue with the default severity and confidence of the dataclass
Issue(id, type, title) == ReportedIssue(id, type, title, "medium", 50)

\* SequenceMatcher ratio of two lower-cased texts, in hundredths
text_similarity(t1, t2) ==
    IF t1 = "" \/ t2 = "" THEN 0
    ELSE IF t1 = t2 THEN 100
    ELSE IF {t1, t2} = {"t1", "t2"} THEN 70
    ELSE IF {t1, t2} = {"t1", "t3"} THEN 69
    ELSE 40

similarity_threshold == 70

\* ReportMerger._are_similar
are_similar(issue1, issue2) ==
    IF issue1.type # issue2.type THEN FALSE
    ELSE IF text_similarity(issue1.title, issue2.title) >= similarity_threshold
         THEN TRUE
    ELSE text_similarity(issue1.description, issue2.description)
             >= similarity_threshold

\* the grouping loop of ReportMerger.deduplicate_issues
RECURSIVE GroupIssues(_, _)
GroupIssues(issues, groups) ==
    IF issues = <<>> THEN groups
    ELSE LET issue == Head(issues)
             hits == {k \in 1..Len(groups) : are_similar(issue, groups[k][1])}
         IN IF hits = {}
            THEN GroupIssues(Tail(issues), Append(groups, <<issue>>))
            ELSE GroupIssues(Tail(issues),
                             [groups EXCEPT ![Min(hits)] = Append(@, issue)])

severity_order == <<"critical", "high", "medium", "low">>

\* severity_order.index(severity)
SeverityIndex(severity) ==
    CHOOSE i \in DOMAIN severity_order : severity_order[i] = severity

\* the loop "Use highest severity", from member k on
RECURSIVE highest_severity(_, _, _)
highest_severity(group, k, highest) ==
    IF k > Len(group) THEN highest
    ELSE IF SeverityIndex(group[k].severity) < SeverityIndex(highest)
         THEN highest_severity(group, k + 1, group[k].severity)
         ELSE highest_severity(group, k + 1, highest)

\* sum(i.confidence for i in group), for confidences of one denominator
RECURSIVE SumConfidence(_)
SumConfidence(group) ==
    IF group = <<>> THEN 0
    ELSE Head(group).confidence.num + SumConfidence(Tail(group))

\* _merge_issue_group with the lowest severity preferred
merge_issue_group_lowest(group) ==
    IF Len(group) = 1 THEN group[1]
    ELSE [group[1] EXCEPT
            !.severity = CHOOSE s \in {group[k].severity : k \in DOMAIN group} :
                            \A k \in DOMAIN group :
                                SeverityIndex(group[k].severity) <= SeverityIndex(s),
            !.confidence = Rational(SumConfidence(group),
                                    Len(group) * group[1].confidence.den),
            !.metadata = [merged_count |-> Len(group),
                          merged_from |-> [k \in DOMAIN group |-> group[k].id]]]

\* ReportMerger._merge_issue_group: a group of one is returned as it is; of
\* a larger group the first issue is the base, with the highest severity,
\* the averaged confidence and the metadata of the merge
merge_issue_group(group) ==
    IF Len(group) = 1 THEN group[1]
    ELSE [group[1] EXCEPT
            !.severity = highest_severity(group, 1, group[1].severity),
            !.confidence = Rational(SumConfidence(group),
                                    Len(group) * group[1].confidence.den),
            !.metadata = [merged_count |-> Len(group),
                          merged_from |-> [k \in DOMAIN group |-> group[k].id]]]

\* ReportMerger.deduplicate_issues
deduplicate_issues(issues) ==
    LET groups == GroupIssues(issues, <<>>)
    IN [k \in 1..Len(groups) |-> merge_issue_group(groups[k])]

RECURSIVE ConcatIssues(_)
ConcatIssues(reports) ==
    IF reports = <<>> THEN <<>>
    ELSE Head(reports).issues \o ConcatIssues(Tail(reports))

AnalysisReport(issues, usage) == [issues |-> issues, token_usage |-> usage]

\* ReportMerger.merge_reports: a single report is passed through; a merged
\* report is built without token_usage, so it carries the default TokenUsage()
merge_reports(reports) ==
    IF reports = <<>> THEN AnalysisReport(<<>>, TokenUsage)
    ELSE IF Len(reports) = 1 THEN reports[1]
    ELSE AnalysisReport(deduplicate_issues(ConcatIssues(reports)), TokenUsage)

(***************************************************************************)
(* dreaming/events.py                                                      *)
(***************************************************************************)
AgentEvent(agent_id, agent_type, event_type, tool_name) ==
    [agent_id |-> agent_id, agent_type |-> agent_type,
     event_type |-> event_type, tool_name |-> tool_name]

NoTool == "none"                \* AgentEvent.tool_name is None

OrchestratorId == <<"orchestrator">>

\* the slice s[-n:] for n >= 0: the last n elements of s, and all of s when
\* n is 0
LastElements(s, n) ==
    IF n = 0 \/ n >= Len(s) THEN s
    ELSE SubSeq(s, Len(s) - n + 1, Len(s))

\* emit without the trim to the bound
EmitTo_untrimmed(buffer, bound, event) == Append(buffer, event)

\* the buffer part of AgentEventStream.emit: append, then keep the newest
\* bound events
EmitTo(buffer, bound, event) ==
    LET appended == Append(buffer, event)
    IN IF Len(appended) > bound
       THEN LastElements(appended, bound)
       ELSE appended

emit(buffer, event) == EmitTo(buffer, max_events, event)

\* several emit calls in a row
RECURSIVE EmitAllTo(_, _, _)
EmitAllTo(buffer, bound, evs) ==
    IF evs = <<>> THEN buffer
    ELSE EmitAllTo(EmitTo(buffer, bound, Head(evs)), bound, Tail(evs))

OrchestratorEvent(event_type) ==
    AgentEvent(OrchestratorId, "orchestrator", event_type, NoTool)

(***************************************************************************)
(* storage/redis_vectors.py                                                *)
(***************************************************************************)
\* RedisVectorStore.ensure_index: creates the index when the server is
\* reachable and the index is missing; on a failure nothing changes
ensure_index(index, reachable) ==
    IF reachable THEN [index EXCEPT !.created = TRUE] ELSE index

\* RedisVectorStore.search_similar starts with ensure_index
search_similar(index, reachable) == ensure_index(index, reachable)

\* RedisVectorStore.store_resolution for each action of a resolution
store_resolution(index, reachable, actions) ==
    IF reachable
    THEN [ensure_index(index, reachable) EXCEPT !.docs = @ + actions]
    ELSE index

(***************************************************************************)
(* State of one cycle of DreamingOrchestrator.run()                        *)
(***************************************************************************)
VARIABLES
    dry_run,              \* DreamingOrchestrator.dry_run
    conversation_limit,   \* DreamingOrchestrator._conversation_limit
    connectors,           \* the connectors create_all returned
    state_file,           \* contents of state.json
    state,                \* StateManager._state
    redis_reachable,      \* the Redis server answers during this cycle
    vector_index,         \* the Redis index: [created, docs]
    files,                \* resolutions/, dry-runs/ and artifact files written
    pc,                   \* position of run()
    conn_idx,             \* index of the connector being processed
    conversations,        \* batch extracted for the current connector
    tasks,                \* Stage A tasks handed to gather, by project folder
    report,               \* the merged Stage A report
    enriched_report,      \* the Stage B report
    stats,                \* the DreamingStatistics accumulated by run()
    totals,               \* total_issues, total_resolutions, total_conversations
    result,               \* the DreamingResult
    events,               \* the events run() itself has emitted to the stream
    now,                  \* wall clock: one unit passes per connector read
    start_time,           \* start_time of run()
    at_start,             \* what the stores held when the cycle started
    spent,                \* usage summed over the agent runs that returned
    launched,             \* a stage agent was launched in this cycle
    auth_raised,          \* the provider raised an authentication error
    extracted,            \* connectors whose extraction has returned
    write_failed          \* connectors for which a Stage C file write raised

orchVars == <<dry_run, conversation_limit, connectors, redis_reachable,
              state_file, state,
              vector_index, files, pc, conn_idx, conversations, tasks, report,
              enriched_report, stats, totals, result, events, now, start_time, at_start, spent,
              launched, auth_raised, extracted, write_failed>>

DreamingResult ==
    [success |-> TRUE, error |-> "none", no_new_conversations |-> FALSE,
     conversations_analyzed |-> 0, issues_found |-> 0,
     resolutions_generated |-> 0, duration_seconds |-> 0,
     resolution_files |-> 0, statistics |-> TokenUsage]

NoReport == AnalysisReport(<<>>, TokenUsage)

\* EnrichedReport: the issues kept for Stage C, how many of them are new or
\* recurring, and the running token total
EnrichedReport(issues, to_resolve, usage) ==
    [issues |-> issues, to_resolve |-> to_resolve, token_usage |-> usage]

NoEnriched == EnrichedReport(<<>>, 0, TokenUsage)

(***************************************************************************)
(* State of the agents of SpecAgents                                       *)
(***************************************************************************)
VARIABLES
    agents,               \* per Stage A agent: its id, position and turn
    stream                \* the newest events of the AgentEventStream they share

agentVars == <<agents, stream>>

(***************************************************************************)
(* State of one run_agent call of SpecRunAgent                             *)
(***************************************************************************)
VARIABLES
    max_turns,            \* AgentConfig.max_turns
    run_pc,               \* position of run_agent
    turns,                \* queries sent to the model so far
    messages,             \* all_messages
    responses,            \* the responses received: stop reason, tool calls
    stop_reason           \* AgentResponse.stop_reason of the returned value

loopVars == <<max_turns, run_pc, turns, messages, responses, stop_reason>>

(***************************************************************************)
(* State of one AgentEventStream of SpecStream                             *)
(***************************************************************************)
VARIABLES
    _max_events,          \* AgentEventStream._max_events
    _events,              \* AgentEventStream._events
    _subscribers,         \* AgentEventStream._subscribers
    emitted,              \* the events emitted since start(), oldest first
    notified,             \* per callback, how often the last emit called it
    last_raising,         \* positions of _subscribers that raised in the last emit
    emit_raised           \* the last emit raised instead of returning

streamVars == <<_max_events, _events, _subscribers, emitted, notified,
                last_raising, emit_raised>>

\* the callbacks that can be subscribed
Callbacks == {"cb1", "cb2"}

\* no emit has been made on the stream
StreamAtRest ==
    /\ _events = <<>>
    /\ _subscribers = <<>>
    /\ emitted = <<>>
    /\ notified = [c \in Callbacks |-> 0]
    /\ last_raising = {}
    /\ emit_raised = FALSE

IdleStream == /\ _max_events = max_events
              /\ StreamAtRest

(***************************************************************************)
(* State of one Stage C agent run of SpecStep3                             *)
(***************************************************************************)
VARIABLES
    resolution_actions,   \* Step3Context.resolution_actions
    _finalized,           \* Step3Context._finalized
    created,              \* draft actions created so far (their ids)
    last_result,          \* what the last tool call of the agent returned
    step3_pc,             \* "agent" while run_agent runs, then "done"
    saved                 \* the remediation document written by generate()

step3Vars == <<resolution_actions, _finalized, created, last_result,
               step3_pc, saved>>

NoToolCall == [tool |-> "none", outcome |-> "none", error |-> "none"]

NoDocument == [saved |-> FALSE]

\* the context as generate() creates it
Step3AtRest ==
    /\ resolution_actions = <<>>
    /\ _finalized = FALSE
    /\ created = 0
    /\ last_result = NoToolCall
    /\ step3_pc = "agent"
    /\ saved = NoDocument

(***************************************************************************)
(* State of one ResolutionValidator.validate call of SpecValidator         *)
(***************************************************************************)
VARIABLES
    document,             \* the data given to validate
    validation            \* what validate returned: is_valid and the errors

validatorVars == <<document, validation>>

NotValidated == [validated |-> FALSE]

IdleValidator == /\ document = <<>>
                 /\ validation = NotValidated

(***************************************************************************)
(* State of one deduplicate_issues call of SpecMerger                      *)
(***************************************************************************)
VARIABLES
    merge_input,          \* the issues given to deduplicate_issues
    merge_output          \* the list it returned

mergerVars == <<merge_input, merge_output>>

NotMerged == [done |-> FALSE]

IdleMerger == /\ merge_input = <<>>
              /\ merge_output = NotMerged

(***************************************************************************)
(* State of one merge_analysis_reports call of SpecMergeReports            *)
(***************************************************************************)
VARIABLES
    agent_reports,        \* the per-project reports given to merge_reports
    merged_report         \* the report it returned

mergeReportsVars == <<agent_reports, merged_report>>

IdleMergeReports == /\ agent_reports = <<>>
                    /\ merged_report = NotMerged

(***************************************************************************)
(* State of one Stage A agent's Step1Context of SpecStep1                  *)
(***************************************************************************)
VARIABLES
    reported_issues,      \* Step1Context.reported_issues
    step1_calls,          \* tool calls the agent has made
    step1_outcome         \* how the last call of a tool handler ended

step1Vars == <<reported_issues, step1_calls, step1_outcome>>

\* a handler returns its JSON string or raises
Returned(tool, json) == [tool |-> tool, raised |-> "none", json |-> json]

Raised(tool, exception) == [tool |-> tool, raised |-> exception, json |-> {}]

NoHandlerCall == Returned("none", {})

IdleStep1 == /\ reported_issues = <<>>
             /\ step1_calls = 0
             /\ step1_outcome = NoHandlerCall

(***************************************************************************)
(* State of the id lookups of SpecLookup                                   *)
(***************************************************************************)
VARIABLES
    known_ids,            \* ids of the issues, or of the stored resolutions
    lookup                \* the last lookup: the tool, the id given, the find

lookupVars == <<known_ids, lookup>>

NotFound == <<>>

NoLookup == [tool |-> "none", id |-> <<>>, found |-> NotFound]

IdleLookup == /\ known_ids = <<>>
              /\ lookup = NoLookup

(***************************************************************************)
(* State of one issue in Stage B: the agent's tools of SpecStep2 and the   *)
(* non-agentic comparison of SpecFallback                                  *)
(***************************************************************************)
VARIABLES
    historical_links,     \* relevance_score of each of issue.historical_links
    issue_status,         \* issue.status
    recommendation,       \* the recommendation of the last comparison tool
    step2_calls,          \* tool calls the Stage B agent has made
    lexical_scores,       \* _calculate_relevance of the recent file actions
    vector_scores,        \* scores of the documents the vector store returned
    compared              \* _compare_non_agentic has handled the issue

step2Vars == <<historical_links, issue_status, recommendation, step2_calls,
               lexical_scores, vector_scores, compared>>

NoRecommendation == [tool |-> "none", best_score |-> 0, label |-> "none"]

\* an EnrichedIssue as from_issue makes it
IdleStep2 == /\ historical_links = <<>>
             /\ issue_status = "new"
             /\ recommendation = NoRecommendation
             /\ step2_calls = 0
             /\ lexical_scores = <<>>
             /\ vector_scores = <<>>
             /\ compared = FALSE

(***************************************************************************)
(* State of one preferences file of SpecPreferences                        *)
(***************************************************************************)
VARIABLES
    prefs_file,           \* the lines of the file
    prefs_content,        \* the content of the update/append action
    prefs_applied,        \* how often the action was applied
    prefs_once            \* the lines of the file after the first time

prefsVars == <<prefs_file, prefs_content, prefs_applied, prefs_once>>

NoContent == [section |-> "General", items |-> <<>>, notes |-> <<>>]

IdlePrefs == /\ prefs_file = <<>>
             /\ prefs_content = NoContent
             /\ prefs_applied = 0
             /\ prefs_once = <<>>

(***************************************************************************)
(* State of one session file of SpecSession                                *)
(***************************************************************************)
VARIABLES
    session_file,         \* the lines of the session file
    session_pc,           \* position of _parse_session_file
    conversation          \* what _parse_session_file returned

sessionVars == <<session_file, session_pc, conversation>>

\* no timestamp (Python None), and the two kinds of datetime
NoTimestamp == [value |-> 0, aware |-> FALSE]

Naive(value) == [value |-> value, aware |-> FALSE]

Aware(value) == [value |-> value, aware |-> TRUE]

\* _parse_session_file returned None
NoConversation ==
    [returned |-> FALSE, messages |-> <<>>,
     started_at |-> NoTimestamp, ended_at |-> NoTimestamp]

IdleSession == /\ session_file = <<>>
               /\ session_pc = "idle"
               /\ conversation = NoConversation

(***************************************************************************)
(* State of one paginated extraction of SpecPaging                         *)
(***************************************************************************)
VARIABLES
    listing,              \* mtime of each session file, in directory order
    page_since,           \* the since every call is given
    page_limit,           \* the limit every call is given
    page_batch,           \* the files of the batch returned last
    batch_cursor,         \* the cursor the last call was given
    next_cursor,          \* the cursor of the batch returned last
    has_more,             \* has_more of the batch returned last
    batches,              \* number of calls that have returned
    visited               \* the files of all batches so far, in order

pagingVars == <<listing, page_since, page_limit, page_batch, batch_cursor,
                next_cursor, has_more, batches, visited>>

\* no cursor (Python None); a cursor is the path of a file
NoCursor == None

IdlePaging == /\ listing = <<>>
              /\ page_since = None
              /\ page_limit = 1
              /\ page_batch = <<>>
              /\ batch_cursor = NoCursor
              /\ next_cursor = NoCursor
              /\ has_more = FALSE
              /\ batches = 0
              /\ visited = <<>>

(***************************************************************************)
(* State of the Stage B filtering of SpecFilter                            *)
(***************************************************************************)
VARIABLES
    context_issues,       \* Step2Context.issues: the ids, in report order
    included_issues,      \* Step2Context.included_issues
    excluded_issues,      \* the keys of Step2Context.excluded_issues
    decided,              \* per id, the class its last successful call chose
    filter_calls,         \* include/exclude calls made so far
    filter_pc,            \* "agent" while the agent runs, then "returned"
    kept_issues           \* enriched.issues after the agent returned

filterVars == <<context_issues, included_issues, excluded_issues, decided,
                filter_calls, filter_pc, kept_issues>>

IdleFilter == /\ context_issues = <<>>
              /\ included_issues = {}
              /\ excluded_issues = {}
              /\ decided = <<>>
              /\ filter_calls = 0
              /\ filter_pc = "idle"
              /\ kept_issues = <<>>

(***************************************************************************)
(* State of the cycles of SpecOverlap, each with its own StateManager      *)
(***************************************************************************)
VARIABLES
    shared_file,          \* contents of state.json
    file_before,          \* contents of state.json before the cycles
    cycles,               \* per cycle: position, StateManager._state, batch
    saves                 \* number of writes of state.json so far

overlapVars == <<shared_file, file_before, cycles, saves>>

IdleOverlap == /\ shared_file = NoFile
               /\ file_before = NoFile
               /\ cycles = <<>>
               /\ saves = 0

(***************************************************************************)
(* State of the successive limited cycles of SpecLimit                     *)
(***************************************************************************)
VARIABLES
    project_files,        \* the sessions of the projects directory
    limited_to,           \* DreamingOrchestrator._conversation_limit
    persisted,            \* the ProcessingState of state.json
    analyzed,             \* sessions some cycle has extracted and analyzed
    left_out,             \* sessions that matched a window and were cut off
    limited_runs          \* cycles run so far

limitVars == <<project_files, limited_to, persisted, analyzed, left_out,
               limited_runs>>

IdleLimit == /\ project_files = {}
             /\ limited_to = None
             /\ persisted = ProcessingState
             /\ analyzed = {}
             /\ left_out = {}
             /\ limited_runs = 0


(***************************************************************************)
(* The issue Stage C resolves in SpecLocalChange                           *)
(***************************************************************************)
VARIABLES
    issue_local_change    \* Issue.local_change of the issue to resolve

localVars == <<issue_local_change>>

IdleLocal == issue_local_change = FALSE

toolVars == <<streamVars, step3Vars, validatorVars, mergerVars,
             mergeReportsVars, step1Vars, lookupVars, step2Vars, prefsVars,
             sessionVars, pagingVars, filterVars, overlapVars, limitVars,
             localVars>>

IdleTools ==
    /\ IdleStream
    /\ Step3AtRest
    /\ IdleValidator
    /\ IdleMerger
    /\ IdleMergeReports
    /\ IdleStep1
    /\ IdleLookup
    /\ IdleStep2
    /\ IdlePrefs
    /\ IdleSession
    /\ IdlePaging
    /\ IdleFilter
    /\ IdleOverlap
    /\ IdleLimit
    /\ IdleLocal


vars == <<orchVars, agentVars, loopVars, toolVars>>

\* no Stage A agent exists
IdleAgents == /\ agents = <<>>
              /\ stream = <<>>

NoStopReason == "none"

\* run_agent has not been called
LoopAtRest == /\ run_pc = "idle"
              /\ turns = 0
              /\ messages = <<>>
              /\ responses = <<>>
              /\ stop_reason = NoStopReason

IdleLoop == /\ max_turns = 0
            /\ LoopAtRest

\* run() has not started
OrchAtRest ==
    /\ state = Unloaded
    /\ vector_index = [created |-> FALSE, docs |-> 0]
    /\ files = [resolutions |-> 0, dry_runs |-> 0, artifacts |-> 0]
    /\ pc = "start"
    /\ conn_idx = 0
    /\ conversations = {}
    /\ tasks = <<>>
    /\ report = NoReport
    /\ enriched_report = NoEnriched
    /\ stats = TokenUsage
    /\ totals = [issues |-> 0, resolutions |-> 0, conversations |-> 0]
    /\ result = DreamingResult
    /\ events = <<>>
    /\ now = MaxNow - MaxConnectors
    /\ start_time = None
    /\ at_start = [state_file |-> state_file, vector_index |-> vector_index,
                   files |-> files]
    /\ spent = TokenUsage
    /\ launched = FALSE
    /\ auth_raised = FALSE
    /\ extracted = 0
    /\ write_failed = {}

\* the options, the connectors found and the stores a cycle starts from
InitOrch ==
    /\ dry_run \in BOOLEAN
    /\ conversation_limit \in {None, 1}
    /\ connectors \in {[i \in 1..n |-> i] : n \in 0..MaxConnectors}
    /\ redis_reachable \in BOOLEAN
    /\ state_file \in {NoFile, File(EarlierState)}
    /\ OrchAtRest

\* no cycle is run
IdleOrch ==
    /\ dry_run = FALSE
    /\ conversation_limit = None
    /\ connectors = <<>>
    /\ redis_reachable = FALSE
    /\ state_file = NoFile
    /\ OrchAtRest

Init == InitOrch /\ IdleAgents /\ IdleLoop /\ IdleTools

(***************************************************************************)
(* DreamingOrchestrator.run()                                              *)
(***************************************************************************)
RunId == "run"

RECURSIVE SortNewestFirst(_)
SortNewestFirst(S) ==
    IF S = {} THEN <<>>
    ELSE LET x == CHOOSE y \in S : \A z \in S : z.mtime <= y.mtime
         IN <<x>> \o SortNewestFirst(S \ {x})

\* the except AWSAuthenticationError branch, then finally
AuthErrorBranch(res) == [res EXCEPT !.success = FALSE, !.error = "auth: hint"]

\* the except Exception branch, then finally
ExceptionBranch(res) == [res EXCEPT !.success = FALSE, !.error = "exception"]

\* `continue`, or the end of one iteration of the connector loop (a local
\* of the loop is cleared where the code reads it for the last time)
NextConnector ==
    /\ IF conn_idx < Len(connectors)
       THEN pc' = "extract" /\ conn_idx' = conn_idx + 1
       ELSE pc' = "finish" /\ conn_idx' = conn_idx
    /\ conversations' = {}
    /\ tasks' = <<>>
    /\ report' = NoReport
    /\ enriched_report' = NoEnriched

\* start of run(): event stream started, provider created, connectors found
RunStart ==
    /\ pc = "start"
    /\ connectors # <<>>
    /\ start_time' = now
    /\ events' = emit(<<>>, OrchestratorEvent("thinking"))
    /\ pc' = "extract"
    /\ conn_idx' = 1
    /\ UNCHANGED <<dry_run, conversation_limit, connectors, redis_reachable,
                     state_file, state, vector_index, files, conversations,
                     tasks, report, enriched_report, stats, totals, result,
                     now, at_start, spent, launched, auth_raised, extracted,
                     write_failed>>
    /\ UNCHANGED <<agentVars, loopVars, toolVars>>

\* ProviderFactory.create raises (for instance a missing API key)
RunProviderFails ==
    /\ pc = "start"
    /\ start_time' = now
    /\ events' = emit(emit(<<>>, OrchestratorEvent("thinking")),
                      OrchestratorEvent("error"))
    /\ result' = ExceptionBranch(result)
    /\ pc' = "returned"
    /\ UNCHANGED <<dry_run, conversation_limit, connectors, redis_reachable,
                     state_file, state, vector_index, files, conn_idx,
                     conversations, tasks, report, enriched_report, stats,
                     totals, now, at_start, spent, launched, auth_raised,
                     extracted, write_failed>>
    /\ UNCHANGED <<agentVars, loopVars, toolVars>>

\* create_all returns no connector: the error is set and the result returned
RunNoConnectors ==
    /\ pc = "start"
    /\ connectors = <<>>
    /\ start_time' = now
    /\ events' = emit(<<>>, OrchestratorEvent("thinking"))
    /\ result' = [result EXCEPT !.error = "No connectors available"]
    /\ pc' = "returned"
    /\ UNCHANGED <<dry_run, conversation_limit, connectors, redis_reachable,
                     state_file, state, vector_index, files, conn_idx,
                     conversations, tasks, report, enriched_report, stats,
                     totals, now, at_start, spent, launched, auth_raised,
                     extracted, write_failed>>
    /\ UNCHANGED <<agentVars, loopVars, toolVars>>

\* _extract_conversations: the window comes from the connector's state
SinceOf(st, c) ==
    IF conversation_limit # None THEN st.connectors[c].last_processed
    ELSE IF st.connectors[c].last_processed = None
         THEN now - initial_lookback_days
         ELSE st.connectors[c].last_processed

\* Step 0 of one loop iteration: extract; an empty batch goes on to the
\* next connector
Extract ==
    /\ pc = "extract"
    /\ now < MaxNow
    /\ now' = now + 1
    /\ extracted' = extracted + 1
    /\ LET c == connectors[conn_idx]
           st == get_connector_state(StateOf(state, state_file), c)
       IN /\ state' = Loaded(st)
          /\ \E fs \in SessionSets :
               \E batch \in extract_conversations(fs, SinceOf(st, c),
                                                  conversation_limit) :
                 /\ totals' = [totals EXCEPT
                                 !.conversations = @ + Cardinality(batch)]
                 /\ IF batch = {}
                    THEN NextConnector
                    ELSE /\ conversations' = batch
                         /\ pc' = "analyze"
                         /\ UNCHANGED <<conn_idx, tasks, report, enriched_report>>
    /\ events' = emit(events, OrchestratorEvent("thinking"))
    /\ UNCHANGED <<dry_run, conversation_limit, connectors, redis_reachable,
                     state_file, vector_index, files, stats, result,
                     start_time, at_start, spent, launched, auth_raised,
                     write_failed>>
    /\ UNCHANGED <<agentVars, loopVars, toolVars>>

\* connector.extract_conversations raises
ExtractFails ==
    /\ pc = "extract"
    /\ now < MaxNow
    /\ now' = now + 1
    /\ state' = Loaded(get_connector_state(StateOf(state, state_file),
                                           connectors[conn_idx]))
    /\ events' = emit(emit(events, OrchestratorEvent("thinking")),
                      OrchestratorEvent("error"))
    /\ result' = ExceptionBranch(result)
    /\ pc' = "returned"
    /\ UNCHANGED <<dry_run, conversation_limit, connectors, redis_reachable,
                     state_file, vector_index, files, conn_idx, conversations,
                     tasks, report, enriched_report, stats, totals, start_time,
                     at_start, spent, launched, auth_raised, extracted,
                     write_failed>>
    /\ UNCHANGED <<agentVars, loopVars, toolVars>>

(***************************************************************************)
(* dreaming/step1_analysis.py                                              *)
(***************************************************************************)
\* folder_path.split("/")[-1]; the names here are shorter than 20 characters
FolderName(wd) == wd[Len(wd)]

Step1AgentId(c, wd) == <<"step1", c, FolderName(wd)>>

\* folder_groups of AnalysisStep.analyze: folders in order of first
\* appearance in the batch
RECURSIVE FolderOrder(_, _)
FolderOrder(convs, seen) ==
    IF convs = <<>> THEN <<>>
    ELSE LET wd == Head(convs).working_directory
         IN IF wd \in seen THEN FolderOrder(Tail(convs), seen)
            ELSE <<wd>> \o FolderOrder(Tail(convs), seen \cup {wd})

\* what an agent can have reported through report_issue when it stops
IssueChoices(c, k) ==
    {<<>>, <<Issue(<<c, k>>, "repeated_request", IF k = 1 THEN "t1" ELSE "t3")>>}

\* AnalysisStep.analyze down to asyncio.gather: one task per folder; each
\* task waits for the provider (the events of the agents are the subject of
\* SpecAgents)
Analyze ==
    /\ pc = "analyze"
    /\ LET c == connectors[conn_idx]
           folders == FolderOrder(SortNewestFirst(conversations), {})
           new_tasks == [k \in 1..Len(folders) |->
                           [agent_id |-> Step1AgentId(c, folders[k]),
                            connector |-> c,
                            folder |-> folders[k],
                            status |-> "running",
                            issues |-> <<>>,
                            token_usage |-> TokenUsage]]
       IN /\ tasks' = new_tasks
          /\ launched' = TRUE
    /\ pc' = "gather"
    /\ UNCHANGED <<dry_run, conversation_limit, connectors, redis_reachable,
                     state_file, state, vector_index, files, conn_idx,
                     conversations, report, enriched_report, stats, totals,
                     result, events, now, start_time, at_start, spent,
                     auth_raised, extracted, write_failed>>
    /\ UNCHANGED <<agentVars, loopVars, toolVars>>

\* AnalysisStep._run_agent: run_agent returned; the task's report
AgentAReturns(k) ==
    /\ k \in DOMAIN tasks
    /\ tasks[k].status = "running"
    /\ \E u \in UsageChoices, iss \in IssueChoices(tasks[k].connector, k) :
         /\ tasks' = [tasks EXCEPT ![k].status = "done",
                                   ![k].issues = iss,
                                   ![k].token_usage = u]
         /\ spent' = AddUsage(spent, u)
    /\ UNCHANGED <<dry_run, conversation_limit, connectors, redis_reachable,
                     state_file, state, vector_index, files, pc, conn_idx,
                     conversations, report, enriched_report, stats, totals,
                     result, events, now, start_time, at_start, launched,
                     auth_raised, extracted, write_failed>>
    /\ UNCHANGED <<agentVars, loopVars, toolVars>>

\* AnalysisStep._run_agent: run_agent raised something other than an
\* authentication error; the issues reported so far are kept, the usage is not
AgentAFails(k) ==
    /\ k \in DOMAIN tasks
    /\ tasks[k].status = "running"
    /\ \E iss \in IssueChoices(tasks[k].connector, k) :
         tasks' = [tasks EXCEPT ![k].status = "done", ![k].issues = iss]
    /\ UNCHANGED <<dry_run, conversation_limit, connectors, redis_reachable,
                     state_file, state, vector_index, files, pc, conn_idx,
                     conversations, report, enriched_report, stats, totals,
                     result, events, now, start_time, at_start, spent,
                     launched, auth_raised, extracted, write_failed>>
    /\ UNCHANGED <<agentVars, loopVars, toolVars>>

\* AnalysisStep._run_agent: AWSAuthenticationError is re-raised
AgentAAuthError(k) ==
    /\ k \in DOMAIN tasks
    /\ tasks[k].status = "running"
    /\ tasks' = [tasks EXCEPT ![k].status = "auth"]
    /\ auth_raised' = TRUE
    /\ UNCHANGED <<dry_run, conversation_limit, connectors, redis_reachable,
                     state_file, state, vector_index, files, pc, conn_idx,
                     conversations, report, enriched_report, stats, totals,
                     result, events, now, start_time, at_start, spent,
                     launched, extracted, write_failed>>
    /\ UNCHANGED <<agentVars, loopVars, toolVars>>

\* gather returned every report: merge, count, and track the Stage A tokens;
\* a report without issues goes on to the next connector
StageAJoin ==
    /\ pc = "gather"
    /\ \A k \in DOMAIN tasks : tasks[k].status = "done"
    /\ LET reports == [k \in DOMAIN tasks |->
                         AnalysisReport(tasks[k].issues, tasks[k].token_usage)]
           merged == merge_reports(reports)
       IN /\ totals' = [totals EXCEPT !.issues = @ + Len(merged.issues)]
          /\ stats' = AddUsage(stats, merged.token_usage)
          /\ IF merged.issues = <<>>
             THEN NextConnector
             ELSE /\ report' = merged
                  /\ pc' = "compare"
                  /\ UNCHANGED <<conn_idx, conversations, tasks,
                                 enriched_report>>
    /\ UNCHANGED <<dry_run, conversation_limit, connectors, redis_reachable,
                     state_file, state, vector_index, files, result, events,
                     now, start_time, at_start, spent, launched, auth_raised,
                     extracted, write_failed>>
    /\ UNCHANGED <<agentVars, loopVars, toolVars>>

\* gather raises the first exception of a task while the other tasks go on;
\* run() handles it in the except AWSAuthenticationError branch
StageAAuthFailure ==
    /\ pc = "gather"
    /\ \E k \in DOMAIN tasks : tasks[k].status = "auth"
    /\ result' = AuthErrorBranch(result)
    /\ events' = emit(events, OrchestratorEvent("error"))
    /\ pc' = "returned"
    /\ UNCHANGED <<dry_run, conversation_limit, connectors, redis_reachable,
                     state_file, state, vector_index, files, conn_idx,
                     conversations, tasks, report, enriched_report, stats,
                     totals, now, start_time, at_start, spent, launched,
                     auth_raised, extracted, write_failed>>
    /\ UNCHANGED <<agentVars, loopVars, toolVars>>

(***************************************************************************)
(* dreaming/step2_comparison.py                                            *)
(***************************************************************************)
\* the issues at the given positions, in their original order
RECURSIVE KeepIssues(_, _, _)
KeepIssues(issues, keep, k) ==
    IF k > Len(issues) THEN <<>>
    ELSE (IF k \in keep THEN <<issues[k]>> ELSE <<>>)
         \o KeepIssues(issues, keep, k + 1)

\* ComparisonStep.compare, the agent returned: the issues it included (or
\* did not exclude) are kept, each with the status it was given; the Stage B
\* usage is added to the report's running total.  A vector search by the
\* agent goes through search_similar (an agent that does not search leaves
\* the index as an unreachable server does).
StageBAgentReturns ==
    /\ pc = "compare"
    /\ \E u \in UsageChoices, keep \in SUBSET (1..Len(report.issues)) :
         \E to_resolve \in 0..Cardinality(keep) :
           LET enriched == EnrichedReport(KeepIssues(report.issues, keep, 1),
                                          to_resolve,
                                          AddUsage(report.token_usage, u))
           IN /\ enriched_report' = enriched
              /\ stats' = AddUsage(stats, SubUsage(enriched.token_usage,
                                                   report.token_usage))
              /\ spent' = AddUsage(spent, u)
              /\ vector_index' = search_similar(vector_index, redis_reachable)
    /\ launched' = TRUE
    /\ pc' = "generate"
    /\ report' = NoReport
    /\ UNCHANGED <<dry_run, conversation_limit, connectors, redis_reachable,
                     state_file, state, files, conn_idx, conversations, tasks,
                     totals, result, events, now, start_time, at_start,
                     auth_raised, extracted, write_failed>>
    /\ UNCHANGED <<agentVars, loopVars, toolVars>>

\* ComparisonStep._compare_non_agentic: every issue is kept, its status comes
\* from the lexical and vector scores; _search_redis_history searches the
\* vector store for every issue; the report's token usage is left as it was
compare_non_agentic ==
    /\ \E to_resolve \in 0..Len(report.issues) :
         enriched_report' = EnrichedReport(report.issues, to_resolve,
                                           report.token_usage)
    /\ stats' = AddUsage(stats, SubUsage(report.token_usage, report.token_usage))
    /\ vector_index' = search_similar(vector_index, redis_reachable)

\* ComparisonStep.compare, run_agent raised: `except Exception` emits an
\* error event of the stage and falls back to the non-agentic comparison
StageBAgentFails ==
    /\ pc = "compare"
    /\ compare_non_agentic
    /\ launched' = TRUE
    /\ pc' = "generate"
    /\ report' = NoReport
    /\ UNCHANGED <<dry_run, conversation_limit, connectors, redis_reachable,
                     state_file, state, files, conn_idx, conversations, tasks,
                     totals, result, events, now, start_time, at_start, spent,
                     auth_raised, extracted, write_failed>>
    /\ UNCHANGED <<agentVars, loopVars, toolVars>>

\* the same branch taken for an AWSAuthenticationError, which is an Exception
StageBAuthError ==
    /\ pc = "compare"
    /\ auth_raised' = TRUE
    /\ compare_non_agentic
    /\ launched' = TRUE
    /\ pc' = "generate"
    /\ report' = NoReport
    /\ UNCHANGED <<dry_run, conversation_limit, connectors, redis_reachable,
                     state_file, state, files, conn_idx, conversations, tasks,
                     totals, result, events, now, start_time, at_start, spent,
                     extracted, write_failed>>
    /\ UNCHANGED <<agentVars, loopVars, toolVars>>

(***************************************************************************)
(* dreaming/step3_resolution.py                                            *)
(***************************************************************************)
\* ResolutionStep._save_resolution
save_resolution(fs, dry) ==
    IF dry THEN [fs EXCEPT !.dry_runs = @ + 1]
    ELSE [fs EXCEPT !.resolutions = @ + 1]

\* ResolutionStep._apply_resolutions: one artifact write per action
apply_resolutions(fs, actions) == [fs EXCEPT !.artifacts = @ + actions]

\* what run() does with the (resolution, file) pair of Stage C
TrackResolution(actions, usage) ==
    /\ totals' = [totals EXCEPT !.resolutions = @ + actions]
    /\ result' = [result EXCEPT !.resolution_files = @ + 1]
    /\ stats' = AddUsage(stats, usage)

\* ResolutionStep.generate without new or recurring issues: (None, None)
GenerateNothing ==
    /\ pc = "generate"
    /\ enriched_report.to_resolve = 0
    /\ pc' = "update"
    /\ enriched_report' = NoEnriched
    /\ UNCHANGED <<dry_run, conversation_limit, connectors, redis_reachable,
                     state_file, state, vector_index, files, conn_idx,
                     conversations, tasks, report, stats, totals, result,
                     events, now, start_time, at_start, spent, launched,
                     auth_raised, extracted, write_failed>>
    /\ UNCHANGED <<agentVars, loopVars, toolVars>>

\* ResolutionStep.generate, the agent returned with `actions` finalized
\* actions.  Without a finalized resolution the stage returns (None, None).
\* Otherwise the JSON is saved; unless dry_run the actions are indexed and
\* applied.
StageCAgentReturns ==
    /\ pc = "generate"
    /\ enriched_report.to_resolve > 0
    /\ \E u \in UsageChoices, actions \in 0..MaxActions :
         /\ spent' = AddUsage(spent, u)
         /\ IF actions = 0
            THEN UNCHANGED <<files, vector_index, totals, result, stats>>
            ELSE /\ TrackResolution(actions, u)
                 /\ IF dry_run
                    THEN /\ files' = save_resolution(files, TRUE)
                         /\ UNCHANGED vector_index
                    ELSE /\ vector_index' =
                              store_resolution(vector_index, redis_reachable,
                                               actions)
                         /\ files' = apply_resolutions(
                                        save_resolution(files, FALSE), actions)
    /\ launched' = TRUE
    /\ pc' = "update"
    /\ enriched_report' = NoEnriched
    /\ UNCHANGED <<dry_run, conversation_limit, connectors, redis_reachable,
                     state_file, state, conn_idx, conversations, tasks, report,
                     events, now, start_time, at_start, auth_raised, extracted,
                     write_failed>>
    /\ UNCHANGED <<agentVars, loopVars, toolVars>>

\* ResolutionStep.generate, run_agent or the save raised: `except Exception`
\* emits an error event and returns (None, None)
StageCAgentFails ==
    /\ pc = "generate"
    /\ enriched_report.to_resolve > 0
    /\ launched' = TRUE
    /\ pc' = "update"
    /\ enriched_report' = NoEnriched
    /\ UNCHANGED <<dry_run, conversation_limit, connectors, redis_reachable,
                     state_file, state, vector_index, files, conn_idx,
                     conversations, tasks, report, stats, totals, result,
                     events, now, start_time, at_start, spent, auth_raised,
                     extracted, write_failed>>
    /\ UNCHANGED <<agentVars, loopVars, toolVars>>

\* ResolutionStep.generate, the agent returned with finalized actions and
\* writing the resolution JSON raised: the `except Exception` of generate
\* emits an error event and returns (None, None)
StageCSaveFails ==
    /\ pc = "generate"
    /\ enriched_report.to_resolve > 0
    /\ \E u \in UsageChoices : spent' = AddUsage(spent, u)
    /\ write_failed' = write_failed \cup {connectors[conn_idx]}
    /\ launched' = TRUE
    /\ pc' = "update"
    /\ enriched_report' = NoEnriched
    /\ UNCHANGED <<dry_run, conversation_limit, connectors, redis_reachable,
                     state_file, state, vector_index, files, conn_idx,
                     conversations, tasks, report, stats, totals, result,
                     events, now, start_time, at_start, auth_raised, extracted>>
    /\ UNCHANGED <<agentVars, loopVars, toolVars>>

\* ResolutionStep.generate outside dry_run, the JSON is saved and indexed
\* and handler.apply_action raised for some of the actions:
\* _apply_resolutions logs each failure and goes on, `written` artifacts
\* are written, and generate returns the resolution and its file
StageCApplyFails ==
    /\ pc = "generate"
    /\ enriched_report.to_resolve > 0
    /\ ~dry_run
    /\ \E u \in UsageChoices, actions \in 1..MaxActions, written \in 0..MaxActions :
         /\ written < actions
         /\ spent' = AddUsage(spent, u)
         /\ TrackResolution(actions, u)
         /\ vector_index' =
              store_resolution(vector_index, redis_reachable, actions)
         /\ files' = apply_resolutions(save_resolution(files, FALSE), written)
    /\ write_failed' = write_failed \cup {connectors[conn_idx]}
    /\ launched' = TRUE
    /\ pc' = "update"
    /\ enriched_report' = NoEnriched
    /\ UNCHANGED <<dry_run, conversation_limit, connectors, redis_reachable,
                     state_file, state, conn_idx, conversations, tasks, report,
                     events, now, start_time, at_start, auth_raised, extracted>>
    /\ UNCHANGED <<agentVars, loopVars, toolVars>>

\* the same branch taken for an AWSAuthenticationError
StageCAuthError ==
    /\ pc = "generate"
    /\ enriched_report.to_resolve > 0
    /\ auth_raised' = TRUE
    /\ launched' = TRUE
    /\ pc' = "update"
    /\ enriched_report' = NoEnriched
    /\ UNCHANGED <<dry_run, conversation_limit, connectors, redis_reachable,
                     state_file, state, vector_index, files, conn_idx,
                     conversations, tasks, report, stats, totals, result,
                     events, now, start_time, at_start, spent, extracted,
                     write_failed>>
    /\ UNCHANGED <<agentVars, loopVars, toolVars>>

(***************************************************************************)
(* DreamingOrchestrator.run(), after the stages                            *)
(***************************************************************************)
\* latest_ts: the newest ended_at of the batch
LatestTs(convs) ==
    IF convs = {} THEN None ELSE Max({c.ended_at : c \in convs})

\* the connector state update at the end of one loop iteration
UpdateConnector ==
    /\ pc = "update"
    /\ IF conversations # {} /\ ~dry_run
       THEN LET st == update_connector_state(StateOf(state, state_file),
                                             connectors[conn_idx],
                                             LatestTs(conversations),
                                             Cardinality(conversations), now)
            IN /\ state' = Loaded(st)
               /\ state_file' = File(st)
       ELSE UNCHANGED <<state, state_file>>
    /\ NextConnector
    /\ UNCHANGED <<dry_run, conversation_limit, connectors, redis_reachable,
                     vector_index, files, stats, totals, result, events, now,
                     start_time, at_start, spent, launched, auth_raised,
                     extracted, write_failed>>
    /\ UNCHANGED <<agentVars, loopVars, toolVars>>

\* the early return with the flag left unset
NoNewConversationsUnflagged(res, duration) ==
    [res EXCEPT !.duration_seconds = duration]

\* the result of the early return without new conversations
NoNewConversations(res, duration) ==
    [res EXCEPT !.no_new_conversations = TRUE, !.duration_seconds = duration]

\* after the loop: the early return without new conversations, or the
\* dreaming state update and the filled-in result
Finish ==
    /\ pc = "finish"
    /\ IF totals.conversations = 0
       THEN /\ result' = NoNewConversations(result, now - start_time)
            /\ UNCHANGED <<state, state_file>>
       ELSE /\ IF ~dry_run
               THEN LET st == update_dreaming_state(StateOf(state, state_file),
                                                    RunId, totals.issues,
                                                    totals.resolutions, now)
                    IN /\ state' = Loaded(st)
                       /\ state_file' = File(st)
               ELSE UNCHANGED <<state, state_file>>
            /\ result' = [result EXCEPT
                            !.conversations_analyzed = totals.conversations,
                            !.issues_found = totals.issues,
                            !.resolutions_generated = totals.resolutions,
                            !.duration_seconds = now - start_time,
                            !.statistics = stats]
    /\ events' = emit(events, OrchestratorEvent("complete"))
    /\ pc' = "returned"
    /\ UNCHANGED <<dry_run, conversation_limit, connectors, redis_reachable,
                     vector_index, files, conn_idx, conversations, tasks,
                     report, enriched_report, stats, totals, now, start_time,
                     at_start, spent, launched, auth_raised, extracted,
                     write_failed>>
    /\ UNCHANGED <<agentVars, loopVars, toolVars>>

Next ==
    \/ RunStart
    \/ RunProviderFails
    \/ RunNoConnectors
    \/ Extract
    \/ ExtractFails
    \/ Analyze
    \/ \E k \in DOMAIN tasks : AgentAReturns(k)
    \/ \E k \in DOMAIN tasks : AgentAFails(k)
    \/ \E k \in DOMAIN tasks : AgentAAuthError(k)
    \/ StageAJoin
    \/ StageAAuthFailure
    \/ StageBAgentReturns
    \/ StageBAgentFails
    \/ StageBAuthError
    \/ GenerateNothing
    \/ StageCAgentReturns
    \/ StageCAgentFails
    \/ StageCAuthError
    \/ UpdateConnector
    \/ Finish

Spec == Init /\ [][Next]_vars

(***************************************************************************)
(* Properties of one cycle (Spec)                                          *)
(***************************************************************************)
\* the state document state.json held when the cycle started
StateAtStart == at_start.state_file

\* C1: in a non-dry-run cycle, when the loop leaves a connector whose batch
\* is not empty and whose Stage A report has no issues (run() goes from the
\* join of Stage A straight to the next connector), state.json holds for
\* that connector last_processed = the latest timestamp of the batch and a
\* conversations_processed grown by the size of the batch.
C1_StateAdvancedWithoutIssues ==
    [][(~dry_run /\ pc = "gather" /\ pc' \in {"extract", "finish"})
         => LET c == connectors[conn_idx]
                before == load_state(state_file).connectors[c]
                after == load_state(state_file').connectors[c]
            IN /\ after.present
               /\ after.last_processed = LatestTs(conversations)
               /\ after.conversations_processed =
                      before.conversations_processed
                          + Cardinality(conversations)]_vars

\* C2: whenever run() has returned a result with success = false, state.json
\* is what it was when the cycle started.
C2_FailedCycleKeepsState ==
    (pc = "returned" /\ ~result.success) => state_file = StateAtStart

\* C3: if the provider raised an authentication error in some stage of the
\* cycle, the returned result has success = false, its error carries the
\* hint, and state.json is what it was when the cycle started.
C3_AuthErrorFailsCycle ==
    (pc = "returned" /\ auth_raised)
        => /\ ~result.success
           /\ result.error = "auth: hint"
           /\ state_file = StateAtStart

\* C4: throughout a cycle with dry_run = true, state.json, the vector index,
\* the artifact files and the resolutions directory are what they were when
\* the cycle started (only dry-runs/ may gain a file).
C4_DryRunWritesNothing ==
    dry_run => /\ state_file = StateAtStart
               /\ vector_index = at_start.vector_index
               /\ files.artifacts = at_start.files.artifacts
               /\ files.resolutions = at_start.files.resolutions

\* C5: when a cycle has returned successfully, each token counter of the
\* result's statistics is the sum of that counter over the agent runs of the
\* cycle that returned a usage.
C5_StatisticsSumAgentRuns ==
    (pc = "returned" /\ result.success) => result.statistics = spent

\* the orchestrator events of the given type in the stream
OrchestratorEvents(event_type) ==
    {i \in DOMAIN events : events[i] = OrchestratorEvent(event_type)}

\* every connector was read and none returned a conversation
NothingExtracted ==
    /\ pc = "returned"
    /\ connectors # <<>>
    /\ extracted = Len(connectors)
    /\ totals.conversations = 0

\* C6: when every connector's extraction has returned and none returned a
\* conversation, the cycle has launched no stage agent, has left state.json
\* as it was, has emitted exactly one orchestrator complete event, and its
\* result has no_new_conversations = true, success = true and a duration
\* that is not negative.
C6_NoNewConversations ==
    NothingExtracted
        => /\ ~launched
           /\ state_file = StateAtStart
           /\ Cardinality(OrchestratorEvents("complete")) = 1
           /\ result.no_new_conversations
           /\ result.success
           /\ result.duration_seconds >= 0

\* C6 witness: a cycle over two or more connectors, all of them read, none
\* with a conversation, has returned with the flag set.
C6_Witness ==
    /\ NothingExtracted
    /\ Len(connectors) >= 2
    /\ result.no_new_conversations
    /\ result.duration_seconds = Len(connectors)

\* C7: whenever run() has returned, the result's duration is the time since
\* the cycle's start and its statistics are the tokens accumulated so far.
C7_DurationAndTokensOnEveryReturn ==
    pc = "returned" => /\ result.duration_seconds = now - start_time
                       /\ result.statistics = stats

(***************************************************************************)
(* providers/anthropic_provider.py and providers/bedrock_provider.py:      *)
(* run_agent and _execute_tool (the two providers share the loop)          *)
(***************************************************************************)
\* names of the tools of config.tools; each has a handler
ToolNames == {"get_messages", "report_issue"}

\* a tool name the model asks for that config.tools does not hold
UnknownTool == "no_such_tool"

StopReasons == {"end_turn", "tool_use"}

ToolCall(id, name, raises) == [id |-> id, name |-> name, raises |-> raises]

\* the calls a response can carry: a tool that returns, a tool whose handler
\* raises, a tool that is not registered
CallKinds ==
    {[name |-> "report_issue", raises |-> FALSE],
     [name |-> "get_messages", raises |-> TRUE],
     [name |-> UnknownTool, raises |-> FALSE]}

\* the sequences of n tool calls of one response; call ids are unique
ToolCalls(turn, n) ==
    {[k \in 1..n |-> ToolCall(<<turn, k>>, f[k].name, f[k].raises)] :
        f \in [1..n -> CallKinds]}

\* what query() can return on the given turn
Responses(turn) ==
    {[stop_reason |-> s, tool_calls |-> tc] :
        s \in StopReasons,
        tc \in UNION {ToolCalls(turn, n) : n \in 0..MaxCalls}}

ToolResult(tool_call_id, is_error) ==
    [tool_call_id |-> tool_call_id, is_error |-> is_error]

NoToolResult == ToolResult(<<>>, FALSE)

UserMessage == [role |-> "user", tool_calls |-> <<>>, tool_result |-> NoToolResult]

AssistantMessage(tool_calls) ==
    [role |-> "assistant", tool_calls |-> tool_calls, tool_result |-> NoToolResult]

ToolResultMessage(tool_result) ==
    [role |-> "tool_result", tool_calls |-> <<>>, tool_result |-> tool_result]

\* _execute_tool with the result of an unknown tool not flagged
execute_tool_unflagged(tool_call) ==
    IF tool_call.name \in ToolNames
    THEN ToolResult(tool_call.id, tool_call.raises)
    ELSE ToolResult(tool_call.id, FALSE)

\* _execute_tool: the handler's result, its exception as an error result, or
\* the error result of an unknown tool
execute_tool(tool_call) ==
    IF tool_call.name \in ToolNames
    THEN ToolResult(tool_call.id, tool_call.raises)
    ELSE ToolResult(tool_call.id, TRUE)

\* the `for tool_call in assistant_message.tool_calls` loop
ToolResults(tool_calls) ==
    [k \in 1..Len(tool_calls) |-> ToolResultMessage(execute_tool(tool_calls[k]))]

\* the stop check with only the stop reason looked at
ShouldStopOnEndTurn(response) == response.stop_reason = "end_turn"

\* "Check if we should stop"
ShouldStop(response) ==
    response.stop_reason = "end_turn" \/ response.tool_calls = <<>>

\* run_agent is called: the history starts with the user message; a loop of
\* zero turns falls through to the final return
RunAgentCall ==
    /\ run_pc = "idle"
    /\ messages' = <<UserMessage>>
    /\ IF max_turns = 0
       THEN run_pc' = "returned" /\ stop_reason' = "max_turns"
       ELSE run_pc' = "query" /\ UNCHANGED stop_reason
    /\ UNCHANGED <<max_turns, turns, responses>>
    /\ UNCHANGED <<orchVars, agentVars, toolVars>>

\* a response that ends the loop
RunAgentReturns ==
    /\ run_pc = "query"
    /\ \E response \in Responses(turns + 1) :
         /\ ShouldStop(response)
         /\ messages' = Append(messages, AssistantMessage(response.tool_calls))
         /\ responses' = Append(responses, response)
         /\ stop_reason' = response.stop_reason
    /\ turns' = turns + 1
    /\ run_pc' = "returned"
    /\ UNCHANGED max_turns
    /\ UNCHANGED <<orchVars, agentVars, toolVars>>

\* a response whose tool calls are executed; after the last turn the loop
\* is exhausted and run_agent returns "max_turns"
RunAgentContinues ==
    /\ run_pc = "query"
    /\ \E response \in Responses(turns + 1) :
         /\ ~ShouldStop(response)
         /\ messages' = Append(messages, AssistantMessage(response.tool_calls))
                            \o ToolResults(response.tool_calls)
         /\ responses' = Append(responses, response)
    /\ turns' = turns + 1
    /\ IF turns + 1 = max_turns
       THEN run_pc' = "returned" /\ stop_reason' = "max_turns"
       ELSE UNCHANGED <<run_pc, stop_reason>>
    /\ UNCHANGED max_turns
    /\ UNCHANGED <<orchVars, agentVars, toolVars>>

\* query() raises: the exception leaves run_agent
RunAgentQueryRaises ==
    /\ run_pc = "query"
    /\ turns' = turns + 1
    /\ run_pc' = "raised"
    /\ UNCHANGED <<max_turns, messages, responses, stop_reason>>
    /\ UNCHANGED <<orchVars, agentVars, toolVars>>

InitRunAgent ==
    /\ IdleOrch
    /\ IdleTools
    /\ IdleAgents
    /\ max_turns \in 0..MaxTurns
    /\ LoopAtRest

NextRunAgent ==
    \/ RunAgentCall
    \/ RunAgentReturns
    \/ RunAgentContinues
    \/ RunAgentQueryRaises

SpecRunAgent == InitRunAgent /\ [][NextRunAgent]_vars

(***************************************************************************)
(* Properties of run_agent (SpecRunAgent)                                  *)
(***************************************************************************)
\* a response that carries tool calls and whose stop reason is not end_turn
CarriesOn(response) ==
    response.stop_reason # "end_turn" /\ Len(response.tool_calls) > 0

\* C8: run_agent sends at most max_turns queries; while it is running every
\* response so far carried tool calls without end_turn and a turn is left;
\* once it has returned, every response but the last carried on, the stop
\* reason is "max_turns" exactly when there were max_turns responses and all
\* of them carried on, and otherwise it is the stop reason of the last
\* response, which did not carry on.
C8_RunAgentTerminates ==
    /\ turns <= max_turns
    /\ run_pc = "query"
          => /\ turns < max_turns
             /\ \A i \in 1..Len(responses) : CarriesOn(responses[i])
    /\ run_pc = "returned"
          => /\ Len(responses) = turns
             /\ \A i \in 1..(Len(responses) - 1) : CarriesOn(responses[i])
             /\ (stop_reason = "max_turns")
                    <=> (/\ Len(responses) = max_turns
                         /\ \A i \in 1..Len(responses) : CarriesOn(responses[i]))
             /\ stop_reason # "max_turns"
                    => /\ responses # <<>>
                       /\ ~CarriesOn(responses[Len(responses)])
                       /\ stop_reason = responses[Len(responses)].stop_reason

\* C8 witness: a run with two or more turns has used them all and returned
\* "max_turns".
C8_Witness ==
    /\ run_pc = "returned"
    /\ stop_reason = "max_turns"
    /\ max_turns >= 2
    /\ turns = max_turns

\* the assistant message at position i did not end the loop
NonTerminating(i) ==
    ~(i = Len(messages) /\ run_pc = "returned" /\ stop_reason # "max_turns")

\* C9: in the message history, every assistant message that did not end the
\* loop and carries n tool calls is followed at once by exactly n tool-result
\* messages, the k-th with the id of the k-th call and flagged as an error
\* when the tool is unknown or its handler raised; after them comes the next
\* assistant message, or the run is still going on (or has used up its turns,
\* or the next query raised).
C9_ToolResultsFollowCalls ==
    \A i \in 1..Len(messages) :
        (messages[i].role = "assistant" /\ NonTerminating(i))
            => LET calls == messages[i].tool_calls
                   n == Len(calls)
               IN /\ i + n <= Len(messages)
                  /\ \A k \in 1..n :
                       /\ messages[i + k].role = "tool_result"
                       /\ messages[i + k].tool_result.tool_call_id = calls[k].id
                       /\ (calls[k].name \notin ToolNames \/ calls[k].raises)
                              => messages[i + k].tool_result.is_error
                  /\ IF i + n < Len(messages)
                     THEN messages[i + n + 1].role = "assistant"
                     ELSE \/ run_pc \in {"query", "raised"}
                          \/ stop_reason = "max_turns"

\* C9 witness: an assistant message with two calls, the first to an unknown
\* tool, is followed by its two results, the first flagged, and by the next
\* assistant message.
C9_Witness ==
    \E i \in 1..Len(messages) :
        /\ messages[i].role = "assistant"
        /\ Len(messages[i].tool_calls) = 2
        /\ messages[i].tool_calls[1].name = UnknownTool
        /\ messages[i].tool_calls[2].raises
        /\ Len(messages) >= i + 3
        /\ messages[i + 1].tool_result.is_error
        /\ messages[i + 2].tool_result.tool_call_id = messages[i].tool_calls[2].id
        /\ messages[i + 3].role = "assistant"

(***************************************************************************)
(* dreaming/step1_analysis.py with dreaming/tools/base.py: the Stage A     *)
(* agents of one connector, run by asyncio.gather on one event loop.  A    *)
(* task gives up control only where it awaits the provider's query: the    *)
(* tool handlers of Stage A never await, so a wrapped handler runs from    *)
(* its tool_call event to its tool_result or error event in one piece.     *)
(***************************************************************************)
\* the working directories of the project groups of one batch
ProjectFolders ==
    <<(<<"a", "proj">>), (<<"b", "proj">>), (<<"a", "lib">>), (<<"b", "lib">>)>>

FolderOf(k) == ProjectFolders[((k - 1) % Len(ProjectFolders)) + 1]

\* the wrapped handler with the error event left out
wrapped_handler_silent(agent_id, agent_type, tool_call) ==
    IF tool_call.raises
    THEN <<AgentEvent(agent_id, agent_type, "tool_call", tool_call.name)>>
    ELSE <<AgentEvent(agent_id, agent_type, "tool_call", tool_call.name),
           AgentEvent(agent_id, agent_type, "tool_result", tool_call.name)>>

\* wrap_tool_with_events.wrapped_handler: the events of one call of a
\* registered tool
wrapped_handler(agent_id, agent_type, tool_call) ==
    IF tool_call.raises
    THEN <<AgentEvent(agent_id, agent_type, "tool_call", tool_call.name),
           AgentEvent(agent_id, agent_type, "error", tool_call.name)>>
    ELSE <<AgentEvent(agent_id, agent_type, "tool_call", tool_call.name),
           AgentEvent(agent_id, agent_type, "tool_result", tool_call.name)>>

\* the events of the tool calls of one assistant message, in order; an
\* unknown tool has no handler and emits nothing
RECURSIVE ToolEvents(_, _)
ToolEvents(agent_id, tool_calls) ==
    IF tool_calls = <<>> THEN <<>>
    ELSE (IF Head(tool_calls).name \in ToolNames
          THEN wrapped_handler(agent_id, "analysis", Head(tool_calls))
          ELSE <<>>)
         \o ToolEvents(agent_id, Tail(tool_calls))

AnalysisEvent(agent_id, event_type) ==
    AgentEvent(agent_id, "analysis", event_type, NoTool)

\* _run_agent up to its await of run_agent: the start event
AgentStart(k) ==
    /\ k \in DOMAIN agents
    /\ agents[k].pc = "start"
    /\ stream' = EmitTo(stream, MaxEvents,
                        AnalysisEvent(agents[k].agent_id, "thinking"))
    /\ agents' = [agents EXCEPT ![k].pc = "query"]
    /\ UNCHANGED <<orchVars, loopVars, toolVars>>

\* one turn whose tool calls are executed; after the last turn run_agent
\* returns and _run_agent emits its completion
AgentContinues(k) ==
    /\ k \in DOMAIN agents
    /\ agents[k].pc = "query"
    /\ \E n \in 1..MaxAgentCalls :
       \E tool_calls \in ToolCalls(agents[k].turn + 1, n) :
         /\ ~ShouldStop([stop_reason |-> "tool_use", tool_calls |-> tool_calls])
         /\ stream' = EmitAllTo(stream, MaxEvents,
                ToolEvents(agents[k].agent_id, tool_calls)
                \o (IF agents[k].turn + 1 = MaxTurns
                    THEN <<AnalysisEvent(agents[k].agent_id, "complete")>>
                    ELSE <<>>))
    /\ agents' = [agents EXCEPT
                    ![k].turn = @ + 1,
                    ![k].pc = IF agents[k].turn + 1 = MaxTurns
                              THEN "done" ELSE "query"]
    /\ UNCHANGED <<orchVars, loopVars, toolVars>>

\* a response that ends the loop: run_agent returns, completion event
AgentReturns(k) ==
    /\ k \in DOMAIN agents
    /\ agents[k].pc = "query"
    /\ stream' = EmitTo(stream, MaxEvents,
                        AnalysisEvent(agents[k].agent_id, "complete"))
    /\ agents' = [agents EXCEPT ![k].pc = "done"]
    /\ UNCHANGED <<orchVars, loopVars, toolVars>>

\* run_agent raises something other than an authentication error
AgentFails(k) ==
    /\ k \in DOMAIN agents
    /\ agents[k].pc = "query"
    /\ stream' = EmitTo(stream, MaxEvents,
                        AnalysisEvent(agents[k].agent_id, "error"))
    /\ agents' = [agents EXCEPT ![k].pc = "done"]
    /\ UNCHANGED <<orchVars, loopVars, toolVars>>

\* run_agent raises AWSAuthenticationError: re-raised without an event; the
\* other tasks of the gather go on
AgentAuthError(k) ==
    /\ k \in DOMAIN agents
    /\ agents[k].pc = "query"
    /\ agents' = [agents EXCEPT ![k].pc = "done"]
    /\ UNCHANGED stream
    /\ UNCHANGED <<orchVars, loopVars, toolVars>>

\* _run_agents_per_folder: one task per project folder
InitAgents ==
    /\ IdleOrch
    /\ IdleTools
    /\ IdleLoop
    /\ \E n \in 1..MaxAgents :
         agents = [k \in 1..n |->
                     [agent_id |-> Step1AgentId(1, FolderOf(k)),
                      pc |-> "start", turn |-> 0]]
    /\ stream = <<>>

NextAgents ==
    \/ \E k \in 1..MaxAgents : AgentStart(k)
    \/ \E k \in 1..MaxAgents : AgentContinues(k)
    \/ \E k \in 1..MaxAgents : AgentReturns(k)
    \/ \E k \in 1..MaxAgents : AgentFails(k)
    \/ \E k \in 1..MaxAgents : AgentAuthError(k)

SpecAgents == InitAgents /\ [][NextAgents]_vars

(***************************************************************************)
(* Properties of the shared event stream (SpecAgents)                      *)
(***************************************************************************)
\* the tool events of one agent id, in stream order
RECURSIVE ToolEventsOf(_, _)
ToolEventsOf(evs, agent_id) ==
    IF evs = <<>> THEN <<>>
    ELSE (IF Head(evs).agent_id = agent_id /\ Head(evs).tool_name # NoTool
          THEN <<Head(evs)>> ELSE <<>>)
         \o ToolEventsOf(Tail(evs), agent_id)

\* C10: in the stream, among the tool events of any one agent id, every
\* tool_call is followed at once by the tool_result or the error of the same
\* tool, and every tool_result or error comes right after the tool_call of
\* the same tool (the oldest event in view may have lost its tool_call).
C10_ToolEventsAlternate ==
    \A a \in {stream[i].agent_id : i \in DOMAIN stream} :
        LET p == ToolEventsOf(stream, a)
        IN \A i \in 1..Len(p) :
             IF p[i].event_type = "tool_call"
             THEN /\ i < Len(p)
                  /\ p[i + 1].event_type \in {"tool_result", "error"}
                  /\ p[i + 1].tool_name = p[i].tool_name
             ELSE i > 1 => /\ p[i - 1].event_type = "tool_call"
                           /\ p[i - 1].tool_name = p[i].tool_name

\* C10 witness: two agents with the same agent id are both between turns,
\* each after a turn of its own, and the stream shows a tool_call followed by
\* its error and a tool_call followed by its tool_result.
C10_Witness ==
    /\ Len(agents) >= 2
    /\ agents[1].agent_id = agents[2].agent_id
    /\ agents[1].pc = "query" /\ agents[1].turn >= 1
    /\ agents[2].pc = "query" /\ agents[2].turn >= 1
    /\ \E i \in 1..(Len(stream) - 1) :
         /\ stream[i].event_type = "tool_call"
         /\ stream[i + 1].event_type = "error"
    /\ \E i \in 1..(Len(stream) - 1) :
         /\ stream[i].event_type = "tool_call"
         /\ stream[i + 1].event_type = "tool_result"


(***************************************************************************)
(* Stage A and the end of run() (Spec)                                     *)
(***************************************************************************)
\* C11: once run() is past the gather of Stage A (in Stage B or later, or
\* returned), no Stage A task takes a further step: the tasks that are still
\* there are as they were.
C11_StageAAgentsFinished ==
    [][(pc \notin {"analyze", "gather"})
          => \A k \in DOMAIN tasks :
                k \in DOMAIN tasks' => tasks'[k] = tasks[k]]_vars

(***************************************************************************)
(* dreaming/events.py: AgentEventStream (SpecStream)                       *)
(***************************************************************************)
StreamAgents == {<<"step1", 1, "proj">>, <<"step2", 1>>}

StreamEventTypes == {"thinking", "complete"}

\* an event with its timestamp
StampedEvent(timestamp, agent_id, event_type) ==
    [timestamp |-> timestamp] @@ AgentEvent(agent_id, "analysis", event_type, NoTool)

\* the notification loop with the exception of a subscriber not caught: the
\* loop ends at the first subscriber that raises
RECURSIVE notify_unguarded(_, _, _)
notify_unguarded(subscribers, raising, k) ==
    IF k > Len(subscribers) THEN [called |-> {}, raised |-> FALSE]
    ELSE IF k \in raising
         THEN [called |-> {k}, raised |-> TRUE]
         ELSE LET rest == notify_unguarded(subscribers, raising, k + 1)
              IN [rest EXCEPT !.called = @ \cup {k}]

\* "Notify all subscribers", from position k on: each subscriber is called;
\* an exception it raises is caught and the loop goes on
RECURSIVE notify(_, _, _)
notify(subscribers, raising, k) ==
    IF k > Len(subscribers) THEN [called |-> {}, raised |-> FALSE]
    ELSE LET rest == notify(subscribers, raising, k + 1)
         IN IF k \in raising
            THEN [rest EXCEPT !.called = @ \cup {k}]     \* except Exception: pass
            ELSE [rest EXCEPT !.called = @ \cup {k}]

\* AgentEventStream.start
StreamStart ==
    /\ emitted # <<>>
    /\ _events' = <<>>
    /\ emitted' = <<>>
    /\ UNCHANGED <<_max_events, _subscribers, notified, last_raising,
                   emit_raised>>
    /\ UNCHANGED <<orchVars, agentVars, loopVars, step3Vars, validatorVars,
                   mergerVars, mergeReportsVars, step1Vars, lookupVars,
                   step2Vars, prefsVars, sessionVars, pagingVars, filterVars,
                   overlapVars, limitVars, localVars>>

\* AgentEventStream.emit; each subscriber returns or raises
StreamEmit ==
    /\ Len(emitted) < MaxEmits
    /\ \E agent_id \in StreamAgents, event_type \in StreamEventTypes,
          failing \in SUBSET Callbacks :
         LET raising == {k \in DOMAIN _subscribers : _subscribers[k] \in failing}
             event == StampedEvent(Len(emitted) + 1, agent_id, event_type)
             outcome == notify(_subscribers, raising, 1)
         IN /\ _events' = EmitTo(_events, _max_events, event)
            /\ emitted' = Append(emitted, event)
            /\ notified' = [c \in Callbacks |->
                              Cardinality({k \in outcome.called :
                                              _subscribers[k] = c})]
            /\ last_raising' = raising
            /\ emit_raised' = outcome.raised
    /\ UNCHANGED <<_max_events, _subscribers>>
    /\ UNCHANGED <<orchVars, agentVars, loopVars, step3Vars, validatorVars,
                   mergerVars, mergeReportsVars, step1Vars, lookupVars,
                   step2Vars, prefsVars, sessionVars, pagingVars, filterVars,
                   overlapVars, limitVars, localVars>>

\* AgentEventStream.subscribe
StreamSubscribe ==
    /\ Len(_subscribers) < MaxSubs
    /\ \E callback \in Callbacks : _subscribers' = Append(_subscribers, callback)
    /\ UNCHANGED <<_max_events, _events, emitted, notified, last_raising,
                   emit_raised>>
    /\ UNCHANGED <<orchVars, agentVars, loopVars, step3Vars, validatorVars,
                   mergerVars, mergeReportsVars, step1Vars, lookupVars,
                   step2Vars, prefsVars, sessionVars, pagingVars, filterVars,
                   overlapVars, limitVars, localVars>>

\* list.remove: the sequence without the first occurrence of the callback
RECURSIVE Remove(_, _)
Remove(s, callback) ==
    IF s = <<>> THEN <<>>
    ELSE IF Head(s) = callback THEN Tail(s)
         ELSE <<Head(s)>> \o Remove(Tail(s), callback)

\* AgentEventStream.unsubscribe of a subscribed callback
StreamUnsubscribe ==
    /\ \E callback \in Callbacks :
         /\ \E k \in DOMAIN _subscribers : _subscribers[k] = callback
         /\ _subscribers' = Remove(_subscribers, callback)
    /\ UNCHANGED <<_max_events, _events, emitted, notified, last_raising,
                   emit_raised>>
    /\ UNCHANGED <<orchVars, agentVars, loopVars, step3Vars, validatorVars,
                   mergerVars, mergeReportsVars, step1Vars, lookupVars,
                   step2Vars, prefsVars, sessionVars, pagingVars, filterVars,
                   overlapVars, limitVars, localVars>>

\* the loop `for event in reversed(self._events)` from position k down
RECURSIVE scan_reversed(_, _, _, _)
scan_reversed(evs, k, active, completed) ==
    IF k = 0 THEN active
    ELSE LET event == evs[k]
         IN IF event.event_type = "complete"
            THEN scan_reversed(evs, k - 1, active, completed \cup {event.agent_id})
            ELSE IF event.agent_id \notin DOMAIN active
                    /\ event.agent_id \notin completed
                 THEN scan_reversed(evs, k - 1,
                                    (event.agent_id :> event) @@ active, completed)
                 ELSE scan_reversed(evs, k - 1, active, completed)

\* get_active_agents walking the buffer oldest first
get_active_agents_oldest_first(evs) ==
    scan_reversed([i \in 1..Len(evs) |-> evs[Len(evs) + 1 - i]], Len(evs), <<>>, {})

\* AgentEventStream.get_active_agents
get_active_agents(evs) == scan_reversed(evs, Len(evs), <<>>, {})

\* a stream is constructed with a bound and no subscribers
InitStream ==
    /\ IdleOrch
    /\ IdleAgents
    /\ IdleLoop
    /\ Step3AtRest
    /\ IdleValidator
    /\ IdleMerger
    /\ IdleMergeReports
    /\ IdleStep1
    /\ IdleLookup
    /\ IdleStep2
    /\ IdlePrefs
    /\ IdleSession
    /\ IdlePaging
    /\ IdleFilter
    /\ IdleOverlap
    /\ IdleLimit
    /\ IdleLocal
    /\ _max_events \in 1..MaxBound
    /\ StreamAtRest

NextStream ==
    \/ StreamStart
    \/ StreamEmit
    \/ StreamSubscribe
    \/ StreamUnsubscribe

SpecStream == InitStream /\ [][NextStream]_vars

(***************************************************************************)
(* Properties of the event stream (SpecStream)                             *)
(***************************************************************************)
\* C12: the buffer never holds more than _max_events events, and it is the
\* sequence of the min(count, _max_events) most recently emitted events, in
\* the order of their emission.
C12_BufferHoldsNewest ==
    LET count == Len(emitted)
        n == Min({count, _max_events})
    IN /\ Len(_events) <= _max_events
       /\ _events = SubSeq(emitted, count - n + 1, count)

\* C12 witness: more events than the bound of two or more have been emitted
\* and the buffer is full.
C12_Witness ==
    /\ _max_events >= 2
    /\ Len(emitted) > _max_events
    /\ Len(_events) = _max_events

\* C13: an emit during which a subscriber raises returns normally, leaves the
\* event as the newest of the buffer, and calls every callback once for each
\* of its subscriptions.
C13_RaisingSubscriberIsSwallowed ==
    [][(Len(emitted') = Len(emitted) + 1 /\ last_raising' # {})
          => /\ ~emit_raised'
             /\ _events' # <<>>
             /\ _events'[Len(_events')] = emitted'[Len(emitted')]
             /\ \A c \in Callbacks :
                  notified'[c] =
                     Cardinality({k \in DOMAIN _subscribers :
                                     _subscribers[k] = c})]_vars

\* C13 witness: the first of two subscribers, each subscribed once, raised
\* during the last emit, and the second one was called once.
C13_Witness ==
    /\ Len(_subscribers) = 2
    /\ _subscribers[1] # _subscribers[2]
    /\ last_raising = {1}
    /\ ~emit_raised
    /\ notified[_subscribers[2]] = 1
    /\ _events # <<>>

\* C14: get_active_agents maps an agent id exactly when the newest buffered
\* event of that agent id is not a complete event, and maps it to that event.
C14_ActiveAgentsAreNewestNonComplete ==
    LET active == get_active_agents(_events)
    IN /\ DOMAIN active \subseteq StreamAgents
       /\ \A a \in StreamAgents :
            LET own == {i \in DOMAIN _events : _events[i].agent_id = a}
            IN IF own = {}
               THEN a \notin DOMAIN active
               ELSE LET newest == _events[Max(own)]
                    IN IF newest.event_type = "complete"
                       THEN a \notin DOMAIN active
                       ELSE /\ a \in DOMAIN active
                            /\ active[a] = newest

\* C14 witness: the buffer holds a complete event of one agent followed by a
\* newer event of the same agent, and a complete event as the newest event
\* of another agent.
C14_Witness ==
    /\ Len(_events) >= 3
    /\ \E i, j \in DOMAIN _events :
         /\ i < j
         /\ _events[i].agent_id = _events[j].agent_id
         /\ _events[i].event_type = "complete"
         /\ _events[j].event_type = "thinking"
         /\ _events[j].agent_id \in DOMAIN get_active_agents(_events)
    /\ _events[Len(_events)].event_type = "complete"
    /\ _events[Len(_events)].agent_id \notin DOMAIN get_active_agents(_events)

(***************************************************************************)
(* linter/validator.py: ResolutionValidator                                *)
(***************************************************************************)
\* a dictionary is a function from its keys; the part of f with the keys D
Restrict(f, D) == [x \in D |-> f[x]]

\* dict.get(key, default)
Get(dict, key, default) == IF key \in DOMAIN dict THEN dict[key] ELSE default

ValidOperations == {"create", "update", "append"}

ValidPriorities == {"low", "medium", "high"}

\* JSON booleans, as they are written in a document
JsonBooleans == {"true", "false"}

\* a path is the sequence of its segments; `".." in target`
HasTraversal(target) == \E i \in DOMAIN target : target[i] = ".."

\* the errors _validate_schema gives for one action
SchemaErrorsOfAction(action) ==
    {<<"missing", field>> :
        field \in {"type", "target", "operation", "local_change"} \ DOMAIN action}
    \cup (IF "operation" \in DOMAIN action
             /\ action["operation"] \notin ValidOperations
          THEN {<<"operation: must be one of", "create, update, append">>}
          ELSE {})
    \cup (IF "priority" \in DOMAIN action
             /\ action["priority"] \notin ValidPriorities
          THEN {<<"priority: must be one of", "low, medium, high">>}
          ELSE {})
    \cup (IF "local_change" \in DOMAIN action
             /\ action["local_change"] \notin JsonBooleans
          THEN {<<"local_change", "must be a boolean">>}
          ELSE {})

\* the errors _validate_schema gives for one element of resolutions
SchemaErrorsOfResolution(res) ==
    (IF "connector_id" \notin DOMAIN res
     THEN {<<"missing", "connector_id">>} ELSE {})
    \cup (IF "actions" \notin DOMAIN res
          THEN {<<"missing", "actions">>}
          ELSE UNION {SchemaErrorsOfAction(res["actions"][j]) :
                         j \in DOMAIN res["actions"]})

\* ResolutionValidator._validate_schema, for a dictionary whose resolutions
\* and actions are lists of dictionaries
validate_schema(data) ==
    IF "resolutions" \notin DOMAIN data
    THEN {<<"missing", "resolutions">>}
    ELSE UNION {SchemaErrorsOfResolution(data["resolutions"][i]) :
                   i \in DOMAIN data["resolutions"]}

\* the actions the custom rules walk over: data.get("resolutions", []) and,
\* in each of them, res.get("actions", [])
ActionsOf(data) ==
    LET resolutions == Get(data, "resolutions", <<>>)
    IN UNION {LET actions == Get(resolutions[i], "actions", <<>>)
              IN {actions[j] : j \in DOMAIN actions} : i \in DOMAIN resolutions}

\* ResolutionValidator._check_action_targets
check_action_targets(data) ==
    UNION {LET target == Get(action, "target", <<>>)
           IN IF target = <<>> THEN {<<"target", "cannot be empty">>}
              ELSE IF HasTraversal(target)
                   THEN {<<"target", "path traversal not allowed">>}
                   ELSE {} : action \in ActionsOf(data)}

\* ResolutionValidator._check_content_requirements; content is the set of the
\* fields it holds a non-empty value for
check_content_requirements(data) ==
    UNION {LET content == Get(action, "content", {})
           IN IF Get(action, "type", "") = "skill"
                 /\ Get(action, "operation", "create") = "create"
              THEN (IF "name" \notin content
                    THEN {<<"content", "skill 'create' requires 'name'">>}
                    ELSE {})
                   \cup (IF "instructions" \notin content
                            /\ "description" \notin content
                         THEN {<<"content",
                                 "skill 'create' requires 'instructions' or 'description'">>}
                         ELSE {})
              ELSE {} : action \in ActionsOf(data)}

\* ResolutionValidator.validate: the schema and the custom rules (the issue
\* references of the modelled documents are lists of strings, which
\* _check_issue_refs accepts)
validate(data) ==
    LET errors == validate_schema(data) \cup check_action_targets(data)
                     \cup check_content_requirements(data)
    IN [validated |-> TRUE, is_valid |-> errors = {}, errors |-> errors]

\* the test's valid document
ValidAction ==
    [type |-> "skill", target |-> <<"~", ".claude", "skills", "test", "SKILL.md">>,
     operation |-> "create",
     content |-> {"name", "description", "instructions"},
     issue_refs |-> <<"issue-1">>, priority |-> "medium",
     rationale |-> "Test rationale"]

\* actions with every field, well-formed or not
FullActions ==
    [type : {"skill", "claude-md"},
     target : {<<>>, <<"~", ".claude", "skills", "test", "SKILL.md">>,
               <<"..", "..", "..", "etc", "passwd">>},
     operation : {"create", "delete"},
     content : {{"name"}, {"name", "description"},
                {"name", "description", "instructions"}},
     issue_refs : {<<"issue-1">>},
     priority : {"medium", "urgent"},
     rationale : {"Test rationale"},
     local_change : {"false", "yes"}]

\* the actions of the documents given to the validator: any of the above
\* with any of its fields left out
ActionDicts ==
    {Restrict(action, fields) :
        action \in FullActions,
        fields \in {{"issue_refs", "rationale"} \cup optional :
                      optional \in SUBSET {"type", "target", "operation", "content",
                                           "priority", "local_change"}}}

\* documents of no resolution, of one resolution with or without its
\* connector_id and actions, and of two resolutions
Documents ==
    {<<>>, [resolutions |-> <<>>]}
    \cup {[resolutions |-> <<res>>] :
            res \in {[connector_id |-> "claude-code"], [actions |-> <<>>],
                     [connector_id |-> "claude-code", actions |-> <<>>]}}
    \cup {[resolutions |-> <<Restrict([connector_id |-> "claude-code",
                                       actions |-> <<action>>], fields)>>] :
            action \in ActionDicts \cup {ValidAction},
            fields \in {{"connector_id", "actions"}, {"actions"}}}
    \cup {[resolutions |-> <<[connector_id |-> "claude-code",
                              actions |-> <<ValidAction, action>>],
                             [connector_id |-> "test", actions |-> <<action>>]>>] :
            action \in {[type |-> "skill",
                         target |-> <<"..", "..", "..", "etc", "passwd">>,
                         operation |-> "create"],
                        [ValidAction EXCEPT !.priority = "urgent"]}}

\* validate is called on the document
Validate ==
    /\ validation = NotValidated
    /\ validation' = validate(document)
    /\ UNCHANGED document
    /\ UNCHANGED <<orchVars, agentVars, loopVars, streamVars, step3Vars, mergerVars,
                   mergeReportsVars, step1Vars, lookupVars, step2Vars,
                   prefsVars, sessionVars, pagingVars, filterVars,
                   overlapVars, limitVars, localVars>>

InitValidator ==
    /\ IdleOrch
    /\ IdleAgents
    /\ IdleLoop
    /\ IdleStream
    /\ Step3AtRest
    /\ IdleMerger
    /\ IdleMergeReports
    /\ IdleStep1
    /\ IdleLookup
    /\ IdleStep2
    /\ IdlePrefs
    /\ IdleSession
    /\ IdlePaging
    /\ IdleFilter
    /\ IdleOverlap
    /\ IdleLimit
    /\ IdleLocal
    /\ document \in Documents
    /\ validation = NotValidated

NextValidator == Validate

SpecValidator == InitValidator /\ [][NextValidator]_vars

(***************************************************************************)
(* Properties of the validator (SpecValidator)                             *)
(***************************************************************************)
\* the conditions on an action: type, a non-empty target without "..", an
\* operation and a priority of the allowed ones, and name and instructions in
\* the content of a skill create
WellFormedAction(action) ==
    /\ {"type", "target", "operation", "priority"} \subseteq DOMAIN action
    /\ action["target"] # <<>>
    /\ ~HasTraversal(action["target"])
    /\ action["operation"] \in ValidOperations
    /\ action["priority"] \in ValidPriorities
    /\ (action["type"] = "skill" /\ action["operation"] = "create")
          => /\ "content" \in DOMAIN action
             /\ {"name", "instructions"} \subseteq action["content"]

\* the conditions on a document
WellFormed(data) ==
    /\ "resolutions" \in DOMAIN data
    /\ \A i \in DOMAIN data["resolutions"] :
         LET res == data["resolutions"][i]
         IN /\ {"connector_id", "actions"} \subseteq DOMAIN res
            /\ \A j \in DOMAIN res["actions"] : WellFormedAction(res["actions"][j])

\* an action of the document has a target with ".."
HasTraversalTarget(data) ==
    \E action \in ActionsOf(data) :
        "target" \in DOMAIN action /\ HasTraversal(action["target"])

\* C19: validate accepts, without errors, every document that meets the
\* conditions (the test's valid document among them); it rejects every
\* document that breaks one of them while its actions carry a priority; and
\* a target with ".." gives a traversal error.
C19_ValidatorAcceptsWellFormed ==
    validation # NotValidated
       => /\ WellFormed(document)
                => (validation.is_valid /\ validation.errors = {})
          /\ (/\ ~WellFormed(document)
              /\ \A action \in ActionsOf(document) :
                    "priority" \in DOMAIN action) => ~validation.is_valid
          /\ HasTraversalTarget(document)
                => /\ ~validation.is_valid
                   /\ <<"target", "path traversal not allowed">> \in validation.errors

(***************************************************************************)
(* dreaming/tools/step3_tools.py: Step3Context (SpecStep3)                 *)
(***************************************************************************)
\* ids of report.new_issues + report.recurring_issues
IssuesToResolve == {"issue-1"}

\* Step3Context.enabled_artifacts: the artifact types found in the runtime
\* directory; each of them has its handler loaded
enabled_artifacts == {"claude-skills"}

\* handler.get_content_schema().required_fields
required_fields(artifact_type) ==
    IF artifact_type = "claude-skills"
    THEN {"name", "description", "instructions"}
    ELSE {"content"}

\* target_path was not given
NoPath == <<>>

\* Step3Context._generate_target_path with no output path in the settings
generate_target_path(artifact_type, name) ==
    <<"~", ".good-night", "artifacts", artifact_type, name>>

\* the arguments the model can call create_resolution_action with; the
\* content is the set of the fields it holds
CreateArgs ==
    [artifact_type : {"", "claude-skills", "claude-md"},
     name : {"", "fix"},
     content : {{}, {"name"}, {"name", "description", "instructions"}},
     issue_refs : {<<>>, <<"issue-1">>, <<"issue-9">>},
     target_path : {NoPath, <<"..", "..", "etc", "passwd">>},
     operation : {"create", "delete"},
     priority : {"medium", "urgent"}]

\* the JSON a tool returns: success, or an error, or a finalize that failed
ToolSuccess(tool) == [tool |-> tool, outcome |-> "success", error |-> "none"]

ToolError(tool, error) == [tool |-> tool, outcome |-> "error", error |-> error]

ToolFailure(tool, message) ==
    [tool |-> tool, outcome |-> "failed", error |-> message]

ResolutionActionDraft(id, args, target_path) ==
    [id |-> id, artifact_type |-> args.artifact_type, name |-> args.name,
     target_path |-> target_path, operation |-> args.operation,
     content |-> args.content, issue_refs |-> args.issue_refs,
     priority |-> args.priority]

\* create_resolution_action: the "Validate required fields" part
missing_argument(args) ==
    IF args.artifact_type = "" THEN "artifact_type is required"
    ELSE IF args.name = "" THEN "name is required"
    ELSE IF args.content = {} THEN "content is required"
    ELSE IF args.issue_refs = <<>> THEN "issue_refs is required"
    ELSE "none"

\* create_resolution_action from "Validate artifact type" on
add_action(actions, id, args) ==
    IF args.artifact_type \notin enabled_artifacts
    THEN [actions |-> actions,
          result |-> ToolError("create_resolution_action", "not enabled")]
    ELSE LET target_path ==
                 IF args.target_path = NoPath
                 THEN generate_target_path(args.artifact_type, args.name)
                 ELSE args.target_path
         IN IF args.operation \notin {"create", "update", "append"}
            THEN [actions |-> actions,
                  result |-> ToolError("create_resolution_action",
                                       "Invalid operation")]
            ELSE [actions |-> Append(actions,
                                     ResolutionActionDraft(id, args, target_path)),
                  result |-> ToolSuccess("create_resolution_action")]

\* create_resolution_action without the check of _finalized
create_resolution_action_unlatched(actions, finalized, id, args) ==
    IF missing_argument(args) # "none"
    THEN [actions |-> actions,
          result |-> ToolError("create_resolution_action", missing_argument(args))]
    ELSE add_action(actions, id, args)

\* Step3Context.create_resolution_action
create_resolution_action(actions, finalized, id, args) ==
    IF missing_argument(args) # "none"
    THEN [actions |-> actions,
          result |-> ToolError("create_resolution_action", missing_argument(args))]
    ELSE IF finalized
         THEN [actions |-> actions,
               result |-> ToolError("create_resolution_action",
                                    "Resolution already finalized")]
         ELSE add_action(actions, id, args)

\* list.pop(i)
Pop(s, i) == SubSeq(s, 1, i - 1) \o SubSeq(s, i + 1, Len(s))

\* Step3Context.remove_action
remove_action(actions, finalized, action_id) ==
    IF finalized
    THEN [actions |-> actions,
          result |-> ToolError("remove_action", "Resolution already finalized")]
    ELSE LET found == {i \in DOMAIN actions : actions[i].id = action_id}
         IN IF found # {}
            THEN [actions |-> Pop(actions, Min(found)),
                  result |-> ToolSuccess("remove_action")]
            ELSE [actions |-> actions,
                  result |-> ToolError("remove_action", "not found")]

\* Step3Context._validate_action: whether it finds no error
validate_action(action) ==
    /\ action.name # ""
    /\ action.content # {}
    /\ action.issue_refs # <<>>
    /\ action.artifact_type \in enabled_artifacts
          => required_fields(action.artifact_type) \subseteq action.content

\* Step3Context.finalize_resolution
finalize_resolution(actions, finalized) ==
    IF finalized
    THEN [finalized |-> finalized,
          result |-> ToolError("finalize_resolution",
                               "Resolution already finalized")]
    ELSE IF actions = <<>>
         THEN [finalized |-> finalized,
               result |-> ToolFailure("finalize_resolution",
                                      "No actions to finalize")]
         ELSE IF \E i \in DOMAIN actions : ~validate_action(actions[i])
              THEN [finalized |-> finalized,
                    result |-> ToolFailure("finalize_resolution",
                                           "Validation failed")]
              ELSE [finalized |-> TRUE,
                    result |-> ToolSuccess("finalize_resolution")]

NoResolution == <<>>

\* Step3Context.get_resolution followed by Resolution.to_dict: the document
\* of the finalized resolution; local_change keeps its default
get_resolution(actions, finalized) ==
    IF ~finalized \/ actions = <<>> THEN NoResolution
    ELSE [resolutions |->
            <<[connector_id |-> "claude-code",
               actions |-> [i \in DOMAIN actions |->
                              [type |-> actions[i].artifact_type,
                               target |-> actions[i].target_path,
                               operation |-> actions[i].operation,
                               content |-> actions[i].content,
                               issue_refs |-> actions[i].issue_refs,
                               priority |-> actions[i].priority,
                               local_change |-> "false"]]]>>]

\* the agent calls create_resolution_action
Step3Create ==
    /\ step3_pc = "agent"
    /\ created < MaxDrafts
    /\ \E args \in CreateArgs :
         LET outcome == create_resolution_action(resolution_actions, _finalized,
                                                 created + 1, args)
         IN /\ resolution_actions' = outcome.actions
            /\ last_result' = outcome.result
            /\ created' = IF outcome.result.outcome = "success"
                          THEN created + 1 ELSE created
    /\ UNCHANGED <<_finalized, step3_pc, saved>>
    /\ UNCHANGED <<orchVars, agentVars, loopVars, streamVars, validatorVars,
                   mergerVars, mergeReportsVars, step1Vars, lookupVars,
                   step2Vars, prefsVars, sessionVars, pagingVars, filterVars,
                   overlapVars, limitVars, localVars>>

\* the agent calls remove_action
Step3Remove ==
    /\ step3_pc = "agent"
    /\ \E action_id \in 1..MaxDrafts :
         LET outcome == remove_action(resolution_actions, _finalized, action_id)
         IN /\ resolution_actions' = outcome.actions
            /\ last_result' = outcome.result
    /\ UNCHANGED <<_finalized, created, step3_pc, saved>>
    /\ UNCHANGED <<orchVars, agentVars, loopVars, streamVars, validatorVars,
                   mergerVars, mergeReportsVars, step1Vars, lookupVars,
                   step2Vars, prefsVars, sessionVars, pagingVars, filterVars,
                   overlapVars, limitVars, localVars>>

\* the agent calls finalize_resolution
Step3Finalize ==
    /\ step3_pc = "agent"
    /\ LET outcome == finalize_resolution(resolution_actions, _finalized)
       IN /\ _finalized' = outcome.finalized
          /\ last_result' = outcome.result
    /\ UNCHANGED <<resolution_actions, created, step3_pc, saved>>
    /\ UNCHANGED <<orchVars, agentVars, loopVars, streamVars, validatorVars,
                   mergerVars, mergeReportsVars, step1Vars, lookupVars,
                   step2Vars, prefsVars, sessionVars, pagingVars, filterVars,
                   overlapVars, limitVars, localVars>>

\* ResolutionStep.generate after run_agent has returned: the resolution of
\* the context, if there is one, is saved
Step3AgentReturns ==
    /\ step3_pc = "agent"
    /\ step3_pc' = "done"
    /\ LET resolution == get_resolution(resolution_actions, _finalized)
       IN saved' = IF resolution = NoResolution THEN NoDocument
                   ELSE [saved |-> TRUE, data |-> resolution]
    /\ UNCHANGED <<resolution_actions, _finalized, created, last_result>>
    /\ UNCHANGED <<orchVars, agentVars, loopVars, streamVars, validatorVars,
                   mergerVars, mergeReportsVars, step1Vars, lookupVars,
                   step2Vars, prefsVars, sessionVars, pagingVars, filterVars,
                   overlapVars, limitVars, localVars>>

InitStep3 ==
    /\ IdleOrch
    /\ IdleAgents
    /\ IdleLoop
    /\ IdleStream
    /\ Step3AtRest
    /\ IdleValidator
    /\ IdleMerger
    /\ IdleMergeReports
    /\ IdleStep1
    /\ IdleLookup
    /\ IdleStep2
    /\ IdlePrefs
    /\ IdleSession
    /\ IdlePaging
    /\ IdleFilter
    /\ IdleOverlap
    /\ IdleLimit
    /\ IdleLocal

NextStep3 ==
    \/ Step3Create
    \/ Step3Remove
    \/ Step3Finalize
    \/ Step3AgentReturns

SpecStep3 == InitStep3 /\ [][NextStep3]_vars

(***************************************************************************)
(* Properties of the Stage C tools (SpecStep3)                             *)
(***************************************************************************)
\* C15: once the resolution is finalized it stays finalized, the draft list
\* does not change, and every tool call returns an error; and a
\* finalize_resolution call that fails leaves the draft list as it was and
\* the resolution not finalized.
C15_FinalizeIsIrreversible ==
    [][/\ _finalized
          => /\ _finalized'
             /\ resolution_actions' = resolution_actions
             /\ last_result' # last_result => last_result'.outcome = "error"
       /\ (/\ last_result' # last_result
           /\ last_result'.tool = "finalize_resolution"
           /\ last_result'.outcome = "failed")
          => /\ resolution_actions' = resolution_actions
             /\ ~_finalized']_vars

\* C15 witness: after the finalization a create_resolution_action call was
\* refused for that reason alone.
C15_Witness ==
    /\ _finalized
    /\ resolution_actions # <<>>
    /\ last_result = ToolError("create_resolution_action",
                               "Resolution already finalized")

C17_FinalizedActionsReferToIssues ==
    _finalized
       => \A i \in DOMAIN resolution_actions :
             LET action == resolution_actions[i]
             IN /\ action.issue_refs # <<>>
                /\ \A k \in DOMAIN action.issue_refs :
                      action.issue_refs[k] \in IssuesToResolve
                /\ required_fields(action.artifact_type) \subseteq action.content

\* C18: the saved document is accepted by the validator, no target of it
\* contains "..", and every priority is low, medium or high.
C18_SavedDocumentIsValid ==
    saved # NoDocument
       => /\ validate(saved.data).is_valid
          /\ \A action \in ActionsOf(saved.data) :
                /\ ~HasTraversal(action["target"])
                /\ action["priority"] \in ValidPriorities

(***************************************************************************)
(* dreaming/merger.py: deduplicate_issues (SpecMerger)                     *)
(***************************************************************************)
\* what an issue given to deduplicate_issues can be, but for its id
IssueAttributes ==
    [type : {"repeated_request", "frustration_signal"},
     title : {"t1", "t3"},
     severity : {"low", "critical"},
     confidence : {60, 80}]

\* a list of issues with the attributes f; the id of an issue is its position
IssueList(f) ==
    [k \in DOMAIN f |->
       ReportedIssue(k, f[k].type, f[k].title, f[k].severity, f[k].confidence)]

\* deduplicate_issues is called on the list
Deduplicate ==
    /\ merge_output = NotMerged
    /\ merge_output' = [done |-> TRUE, issues |-> deduplicate_issues(merge_input)]
    /\ UNCHANGED merge_input
    /\ UNCHANGED <<orchVars, agentVars, loopVars, streamVars, step3Vars,
                   validatorVars, mergeReportsVars, step1Vars, lookupVars,
                   step2Vars, prefsVars, sessionVars, pagingVars, filterVars,
                   overlapVars, limitVars, localVars>>

InitMerger ==
    /\ IdleOrch
    /\ IdleAgents
    /\ IdleLoop
    /\ IdleStream
    /\ Step3AtRest
    /\ IdleValidator
    /\ IdleMergeReports
    /\ IdleStep1
    /\ IdleLookup
    /\ IdleStep2
    /\ IdlePrefs
    /\ IdleSession
    /\ IdlePaging
    /\ IdleFilter
    /\ IdleOverlap
    /\ IdleLimit
    /\ IdleLocal
    /\ \E len \in 0..MaxIssues :
         \E f \in [1..len -> IssueAttributes] : merge_input = IssueList(f)
    /\ merge_output = NotMerged

NextMerger == Deduplicate

SpecMerger == InitMerger /\ [][NextMerger]_vars

(***************************************************************************)
(* Properties of the merge (SpecMerger)                                    *)
(***************************************************************************)
\* the clusters of the input: the groups of the grouping loop
Clusters == GroupIssues(merge_input, <<>>)

\* the sizes of the groups, summed
RECURSIVE SumLen(_)
SumLen(groups) ==
    IF groups = <<>> THEN 0 ELSE Len(Head(groups)) + SumLen(Tail(groups))

\* what the claim says of every cluster but its merged_count: the members
\* share one kind, and the returned issue has the id of the first member, the
\* highest severity of the members and the mean of their confidences; the
\* clusters partition the input
ClustersCollapse ==
    LET out == merge_output.issues
    IN /\ Len(out) = Len(Clusters)
       /\ \A k \in DOMAIN Clusters :
            LET cluster == Clusters[k]
            IN /\ \A m \in DOMAIN cluster : cluster[m].type = cluster[1].type
               /\ out[k].id = cluster[1].id
               /\ out[k].type = cluster[1].type
               /\ \E m \in DOMAIN cluster : out[k].severity = cluster[m].severity
               /\ \A m \in DOMAIN cluster :
                     SeverityIndex(out[k].severity) <= SeverityIndex(cluster[m].severity)
               /\ out[k].confidence.num * Len(cluster)
                     = SumConfidence(cluster) * out[k].confidence.den
       /\ \A i \in DOMAIN merge_input :
             Cardinality({km \in (DOMAIN Clusters) \X (DOMAIN merge_input) :
                             /\ km[2] \in DOMAIN Clusters[km[1]]
                             /\ Clusters[km[1]][km[2]] = merge_input[i]}) = 1
       /\ SumLen(Clusters) = Len(merge_input)

\* C20 as stated: every returned issue, the one of a cluster of a single
\* issue too, records the size of its cluster as merged_count.
C20_ClustersCollapse ==
    merge_output.done
       => /\ ClustersCollapse
          /\ \A k \in DOMAIN Clusters :
                /\ "merged_count" \in DOMAIN merge_output.issues[k].metadata
                /\ merge_output.issues[k].metadata["merged_count"] = Len(Clusters[k])

\* C20, amended: the returned issue of a cluster of two or more issues
\* records the size of the cluster as merged_count; the issue of a cluster of
\* one is returned as it was given, with no merged_count.
C20_ClustersOfSeveralCollapse ==
    merge_output.done
       => /\ ClustersCollapse
          /\ \A k \in DOMAIN Clusters :
                IF Len(Clusters[k]) >= 2
                THEN /\ "merged_count" \in DOMAIN merge_output.issues[k].metadata
                     /\ merge_output.issues[k].metadata["merged_count"]
                           = Len(Clusters[k])
                ELSE merge_output.issues[k] = Clusters[k][1]

\* C20 witness: three issues were collapsed into a cluster of two, whose
\* second member had the higher severity and another confidence, and a
\* cluster of one.
C20_Witness ==
    /\ merge_output.done
    /\ Len(merge_input) = 3
    /\ Len(merge_output.issues) = 2
    /\ \E k \in DOMAIN Clusters :
         /\ Len(Clusters[k]) = 2
         /\ SeverityIndex(Clusters[k][2].severity) < SeverityIndex(Clusters[k][1].severity)
         /\ Clusters[k][2].confidence # Clusters[k][1].confidence
         /\ merge_output.issues[k].severity = Clusters[k][2].severity
         /\ merge_output.issues[k].metadata["merged_count"] = 2

(***************************************************************************)
(* dreaming/merger.py: merge_reports as Stage A calls it (SpecMergeReports)*)
(***************************************************************************)
\* title and description of the issues of the reports: t1 and t2 have the
\* ratio 0.7, t1 and t3 the ratio 0.69; a description can be empty
IssueTexts ==
    {<<"t1", "t2">>, <<"t2", "">>, <<"t3", "t2">>, <<"t3", "">>}

ReportIssueAttributes ==
    [type : {"repeated_request", "frustration_signal"}, text : IssueTexts]

\* the issues with the attributes f, with their positions as ids
ReportIssues(f) ==
    [k \in DOMAIN f |->
       [Issue(k, f[k].type, f[k].text[1]) EXCEPT !.description = f[k].text[2]]]

\* the issues cut into n reports: report r holds the issues after cut r - 1
\* up to cut r
CutIntoReports(issues, cuts) ==
    LET n == Len(cuts) + 1
        from(r) == IF r = 1 THEN 1 ELSE cuts[r - 1] + 1
        to(r) == IF r = n THEN Len(issues) ELSE cuts[r]
    IN [r \in 1..n |-> AnalysisReport(SubSeq(issues, from(r), to(r)), TokenUsage)]

\* merge_analysis_reports is called on the reports of the agents
MergeReports ==
    /\ merged_report = NotMerged
    /\ merged_report' = [done |-> TRUE, report |-> merge_reports(agent_reports)]
    /\ UNCHANGED agent_reports
    /\ UNCHANGED <<orchVars, agentVars, loopVars, streamVars, step3Vars,
                   validatorVars, mergerVars, step1Vars, lookupVars,
                   step2Vars, prefsVars, sessionVars, pagingVars, filterVars,
                   overlapVars, limitVars, localVars>>

\* between one and MaxReports reports that hold up to MaxIssues issues
InitMergeReports ==
    /\ IdleOrch
    /\ IdleAgents
    /\ IdleLoop
    /\ IdleStream
    /\ Step3AtRest
    /\ IdleValidator
    /\ IdleMerger
    /\ IdleStep1
    /\ IdleLookup
    /\ IdleStep2
    /\ IdlePrefs
    /\ IdleSession
    /\ IdlePaging
    /\ IdleFilter
    /\ IdleOverlap
    /\ IdleLimit
    /\ IdleLocal
    /\ \E n \in 1..MaxReports, len \in 0..MaxIssues :
         \E f \in [1..len -> ReportIssueAttributes],
            cuts \in [1..(n - 1) -> 0..len] :
             /\ \A r \in 1..(n - 2) : cuts[r] <= cuts[r + 1]
             /\ agent_reports = CutIntoReports(ReportIssues(f), cuts)
    /\ merged_report = NotMerged

NextMergeReports == MergeReports

SpecMergeReports == InitMergeReports /\ [][NextMergeReports]_vars

(***************************************************************************)
(* Properties of the merged report (SpecMergeReports)                      *)
(***************************************************************************)
\* C21: no two issues of the merged report have the same kind and a title
\* or description similarity of 0.7 or more, however many reports were
\* merged.
C21_MergedIssuesAreDistinct ==
    merged_report.done
       => \A i, j \in DOMAIN merged_report.report.issues :
             i # j => ~are_similar(merged_report.report.issues[i],
                                   merged_report.report.issues[j])

(***************************************************************************)
(* dreaming/tools/step1_tools.py: Step1Context (SpecStep1)                 *)
(***************************************************************************)
\* session ids of the conversations of the agent's batch: the keys of
\* _conv_index
BatchSessions == {"s1", "s2"}

\* a session id no conversation of the batch has
UnknownSession == "s9"

\* the items of the evidence argument: an object with or without a
\* session_id, or a JSON value that is not an object
EvidenceItems ==
    {[is_object |-> TRUE, session_id |-> s] :
        s \in {"s1", UnknownSession, "absent"}}
    \cup {[is_object |-> FALSE, session_id |-> "absent"]}

\* the arguments of a report_issue call: the title can be left out, the
\* evidence can be left out or be a list of items
ReportIssueArgs ==
    [title : {"absent", "t1", "t2"},
     evidence : {<<>>} \cup {<<item>> : item \in EvidenceItems}
                \cup {<<[is_object |-> TRUE, session_id |-> "s2"], item>> :
                        item \in EvidenceItems}]

\* e.get("session_id", "")
SessionIdOf(item) ==
    IF item.session_id = "absent" THEN "" ELSE item.session_id

\* the loop `for e in evidence or []` of report_issue
evidence_list(evidence) ==
    [k \in DOMAIN evidence |-> [session_id |-> SessionIdOf(evidence[k])]]

\* Step1Context.report_issue, called as handler(**tool_call.input): a call
\* without a required parameter raises TypeError, e.get on an item that is
\* not an object raises AttributeError, any other call appends the issue
report_issue(issues, args) ==
    IF args.title = "absent"
    THEN [issues |-> issues, outcome |-> Raised("report_issue", "TypeError")]
    ELSE IF \E k \in DOMAIN args.evidence : ~args.evidence[k].is_object
    THEN [issues |-> issues,
          outcome |-> Raised("report_issue", "AttributeError")]
    ELSE [issues |-> Append(issues, [title |-> args.title,
                                     evidence |-> evidence_list(args.evidence)]),
          outcome |-> Returned("report_issue", {"success", "issue_id"})]

\* Step1Context.get_messages
get_messages(conversation_id) ==
    IF conversation_id \notin BatchSessions
    THEN Returned("get_messages", {"error"})
    ELSE Returned("get_messages", {"conversation_id", "messages"})

\* the agent calls report_issue
Step1ReportIssue ==
    /\ step1_calls < MaxToolCalls
    /\ \E args \in ReportIssueArgs :
         LET call == report_issue(reported_issues, args)
         IN /\ reported_issues' = call.issues
            /\ step1_outcome' = call.outcome
    /\ step1_calls' = step1_calls + 1
    /\ UNCHANGED <<orchVars, agentVars, loopVars, streamVars, step3Vars,
                   validatorVars, mergerVars, mergeReportsVars, lookupVars,
                   step2Vars, prefsVars, sessionVars, pagingVars, filterVars,
                   overlapVars, limitVars, localVars>>

\* the agent calls get_messages
Step1GetMessages ==
    /\ step1_calls < MaxToolCalls
    /\ \E conversation_id \in BatchSessions \cup {UnknownSession} :
         step1_outcome' = get_messages(conversation_id)
    /\ step1_calls' = step1_calls + 1
    /\ UNCHANGED reported_issues
    /\ UNCHANGED <<orchVars, agentVars, loopVars, streamVars, step3Vars,
                   validatorVars, mergerVars, mergeReportsVars, lookupVars,
                   step2Vars, prefsVars, sessionVars, pagingVars, filterVars,
                   overlapVars, limitVars, localVars>>

InitStep1 ==
    /\ IdleOrch
    /\ IdleAgents
    /\ IdleLoop
    /\ IdleStream
    /\ Step3AtRest
    /\ IdleValidator
    /\ IdleMerger
    /\ IdleMergeReports
    /\ IdleLookup
    /\ IdleStep2
    /\ IdlePrefs
    /\ IdleSession
    /\ IdlePaging
    /\ IdleFilter
    /\ IdleOverlap
    /\ IdleLimit
    /\ IdleLocal
    /\ reported_issues = <<>>
    /\ step1_calls = 0
    /\ step1_outcome = NoHandlerCall

NextStep1 ==
    \/ Step1ReportIssue
    \/ Step1GetMessages

SpecStep1 == InitStep1 /\ [][NextStep1]_vars

(***************************************************************************)
(* Properties of the Stage A tools (SpecStep1)                             *)
(***************************************************************************)
\* C22: every evidence entry of every reported issue has the session id of a
\* conversation of the agent's batch.
C22_EvidenceIsOfTheBatch ==
    \A i \in DOMAIN reported_issues :
        \A k \in DOMAIN reported_issues[i].evidence :
            reported_issues[i].evidence[k].session_id \in BatchSessions

\* C23: no call of a tool handler raises; a call that fails returns a JSON
\* document with an "error" key.
C23_HandlersNeverRaise ==
    step1_outcome.raised = "none"

(***************************************************************************)
(* Lookups by id: Step2Context._find_issue, ResolutionStorage.load_by_id   *)
(* and the issue_refs of create_resolution_action (SpecLookup)             *)
(***************************************************************************)
\* length of the short form of an id
short_id_length == 8

\* s[:n]
Prefix(s, n) == IF n >= Len(s) THEN s ELSE SubSeq(s, 1, n)

\* full_id.startswith(id)
StartsWith(full_id, id) ==
    Len(id) <= Len(full_id) /\ SubSeq(full_id, 1, Len(id)) = id

\* ids as sequences of characters: two ids with the same first eight
\* characters, a third one, and an id of eight characters that the first two
\* start with
Ids ==
    {<<"a", "a", "a", "a", "a", "a", "a", "a", "x">>,
     <<"a", "a", "a", "a", "a", "a", "a", "a", "y">>,
     <<"b", "b", "b", "b", "b", "b", "b", "b", "z">>,
     <<"a", "a", "a", "a", "a", "a", "a", "a">>}

\* the ids a tool can be given: an id, the short form of one, or neither
GivenIds ==
    Ids \cup {Prefix(id, short_id_length) : id \in Ids}
        \cup {<<"c", "c", "c", "c", "c", "c", "c", "c">>}

\* the first id of the sequence, from position k on, that starts with id
RECURSIVE first_starting_with(_, _, _)
first_starting_with(ids, id, k) ==
    IF k > Len(ids) THEN NotFound
    ELSE IF StartsWith(ids[k], id) THEN ids[k]
    ELSE first_starting_with(ids, id, k + 1)

\* Step2Context._find_issue over the keys of _issue_index, in their order
find_issue(ids, issue_id) ==
    IF \E k \in DOMAIN ids : ids[k] = issue_id THEN issue_id
    ELSE first_starting_with(ids, issue_id, 1)

\* ResolutionStorage.load_by_id: the files named after the first characters
\* of the id are read, and the one with that very id is returned
load_by_id(ids, resolution_id) ==
    LET globbed == {k \in DOMAIN ids :
                      Prefix(ids[k], short_id_length)
                         = Prefix(resolution_id, short_id_length)}
    IN IF \E k \in globbed : ids[k] = resolution_id
       THEN resolution_id ELSE NotFound

\* create_resolution_action, `if issue.id in issue_refs`: the issue whose
\* evidence the reference brings in
referenced_issue(ids, issue_ref) ==
    IF \E k \in DOMAIN ids : ids[k] = issue_ref THEN issue_ref ELSE NotFound

\* a Stage B tool looks an issue up
LookupIssue ==
    /\ lookup = NoLookup
    /\ \E id \in GivenIds :
         lookup' = [tool |-> "get_issue_details", id |-> id,
                    found |-> find_issue(known_ids, id)]
    /\ UNCHANGED known_ids
    /\ UNCHANGED <<orchVars, agentVars, loopVars, streamVars, step3Vars,
                   validatorVars, mergerVars, mergeReportsVars, step1Vars,
                   step2Vars, prefsVars, sessionVars, pagingVars, filterVars,
                   overlapVars, limitVars, localVars>>

\* get_resolution_details or link_issue_to_resolution loads a resolution
LookupResolution ==
    /\ lookup = NoLookup
    /\ \E id \in GivenIds :
         lookup' = [tool |-> "get_resolution_details", id |-> id,
                    found |-> load_by_id(known_ids, id)]
    /\ UNCHANGED known_ids
    /\ UNCHANGED <<orchVars, agentVars, loopVars, streamVars, step3Vars,
                   validatorVars, mergerVars, mergeReportsVars, step1Vars,
                   step2Vars, prefsVars, sessionVars, pagingVars, filterVars,
                   overlapVars, limitVars, localVars>>

\* create_resolution_action collects the references of an issue ref
LookupIssueRef ==
    /\ lookup = NoLookup
    /\ \E id \in GivenIds :
         lookup' = [tool |-> "create_resolution_action", id |-> id,
                    found |-> referenced_issue(known_ids, id)]
    /\ UNCHANGED known_ids
    /\ UNCHANGED <<orchVars, agentVars, loopVars, streamVars, step3Vars,
                   validatorVars, mergerVars, mergeReportsVars, step1Vars,
                   step2Vars, prefsVars, sessionVars, pagingVars, filterVars,
                   overlapVars, limitVars, localVars>>

\* up to MaxIds known ids, in any order
InitLookup ==
    /\ IdleOrch
    /\ IdleAgents
    /\ IdleLoop
    /\ IdleStream
    /\ Step3AtRest
    /\ IdleValidator
    /\ IdleMerger
    /\ IdleMergeReports
    /\ IdleStep1
    /\ IdleStep2
    /\ IdlePrefs
    /\ IdleSession
    /\ IdlePaging
    /\ IdleFilter
    /\ IdleOverlap
    /\ IdleLimit
    /\ IdleLocal
    /\ \E n \in 0..MaxIds :
         \E ids \in [1..n -> Ids] :
             /\ \A i, j \in 1..n : i # j => ids[i] # ids[j]
             /\ known_ids = ids
    /\ lookup = NoLookup

NextLookup ==
    \/ LookupIssue
    \/ LookupResolution
    \/ LookupIssueRef

SpecLookup == InitLookup /\ [][NextLookup]_vars

(***************************************************************************)
(* Properties of the lookups (SpecLookup)                                  *)
(***************************************************************************)
\* the known ids that are the given id, or else those that start with it
Candidates(ids, id) ==
    IF \E k \in DOMAIN ids : ids[k] = id THEN {id}
    ELSE {ids[k] : k \in {i \in DOMAIN ids : StartsWith(ids[i], id)}}

\* C24: every tool finds the entity with exactly the given id if there is
\* one, otherwise an entity whose id starts with the given id if there is
\* one, and nothing otherwise.
C24_ExactThenPrefix ==
    lookup # NoLookup
       => IF Candidates(known_ids, lookup.id) = {}
          THEN lookup.found = NotFound
          ELSE lookup.found \in Candidates(known_ids, lookup.id)

(***************************************************************************)
(* dreaming/tools/step2_tools.py: the comparison tools (SpecStep2)         *)
(***************************************************************************)
\* similarity scores, in hundredths
ScoreValues == {30, 50, 51, 59, 65, 84, 85, 86, 88}

\* s with x put before the first element that is smaller
RECURSIVE InsertDescending(_, _)
InsertDescending(s, x) ==
    IF s = <<>> THEN <<x>>
    ELSE IF Head(s) < x THEN <<x>> \o s
    ELSE <<Head(s)>> \o InsertDescending(Tail(s), x)

\* sort(key=score, reverse=True)
RECURSIVE SortDescending(_)
SortDescending(s) ==
    IF s = <<>> THEN <<>>
    ELSE InsertDescending(SortDescending(Tail(s)), Head(s))

\* the elements of s above the limit, in their order
RECURSIVE Above(_, _)
Above(s, limit) ==
    IF s = <<>> THEN <<>>
    ELSE (IF Head(s) > limit THEN <<Head(s)>> ELSE <<>>) \o Above(Tail(s), limit)

\* s[:n]
FirstElements(s, n) == IF n >= Len(s) THEN s ELSE SubSeq(s, 1, n)

\* the thresholds of both recommendations
already_resolved_above == 85

recurring_above == 60

\* Step2Context._get_recommendation, on the matches sorted by score
get_recommendation(matches) ==
    IF matches = <<>> THEN "new"
    ELSE IF matches[1] > already_resolved_above THEN "already_resolved"
    ELSE IF matches[1] > recurring_above THEN "recurring"
    ELSE "new"

\* Step2Context._get_vector_recommendation with the upper threshold taken
\* as reached
get_vector_recommendation_inclusive(matches) ==
    IF matches = <<>> THEN "new"
    ELSE IF matches[1] >= already_resolved_above THEN "already_resolved"
    ELSE IF matches[1] > recurring_above THEN "recurring"
    ELSE "new"

\* Step2Context._get_vector_recommendation, on the results of the store
get_vector_recommendation(matches) ==
    IF matches = <<>> THEN "new"
    ELSE IF matches[1] > already_resolved_above THEN "already_resolved"
    ELSE IF matches[1] > recurring_above THEN "recurring"
    ELSE "new"

\* scores as search_similar returns them: min_score and more, best first
VectorResults(n) ==
    {s \in UNION {[1..len -> {v \in ScoreValues : v >= 50}] : len \in 0..n} :
        \A i \in 1..(Len(s) - 1) : s[i] >= s[i + 1]}

\* the relevance_score argument of link_issue_to_resolution, in hundredths
RelevanceArgs == {20, 80, 150}

\* compare_issue_to_resolutions: the matches above 0.3, best first
Step2Compare ==
    /\ ~compared
    /\ step2_calls < MaxToolCalls
    /\ \E len \in 0..MaxMatches :
         \E scores \in [1..len -> ScoreValues] :
            LET matches == FirstElements(SortDescending(Above(scores, 30)), 10)
            IN recommendation' =
                  [tool |-> "compare_issue_to_resolutions",
                   best_score |-> IF matches = <<>> THEN 0 ELSE matches[1],
                   label |-> get_recommendation(matches)]
    /\ step2_calls' = step2_calls + 1
    /\ UNCHANGED <<historical_links, issue_status, lexical_scores,
                   vector_scores, compared>>
    /\ UNCHANGED <<orchVars, agentVars, loopVars, streamVars, step3Vars,
                   validatorVars, mergerVars, mergeReportsVars, step1Vars,
                   lookupVars, prefsVars, sessionVars, pagingVars,
                   filterVars, overlapVars, limitVars, localVars>>

\* search_similar_resolutions_vector: without results no recommendation is
\* given
Step2VectorSearch ==
    /\ ~compared
    /\ step2_calls < MaxToolCalls
    /\ \E results \in VectorResults(MaxMatches) :
         recommendation' =
            IF results = <<>> THEN NoRecommendation
            ELSE [tool |-> "search_similar_resolutions_vector",
                  best_score |-> results[1],
                  label |-> get_vector_recommendation(results)]
    /\ step2_calls' = step2_calls + 1
    /\ UNCHANGED <<historical_links, issue_status, lexical_scores,
                   vector_scores, compared>>
    /\ UNCHANGED <<orchVars, agentVars, loopVars, streamVars, step3Vars,
                   validatorVars, mergerVars, mergeReportsVars, step1Vars,
                   lookupVars, prefsVars, sessionVars, pagingVars,
                   filterVars, overlapVars, limitVars, localVars>>

\* link_issue_to_resolution on an issue and a resolution that exist
Step2Link ==
    /\ ~compared
    /\ step2_calls < MaxToolCalls
    /\ \E relevance_score \in RelevanceArgs :
         historical_links' = Append(historical_links, relevance_score)
    /\ step2_calls' = step2_calls + 1
    /\ UNCHANGED <<issue_status, recommendation, lexical_scores,
                   vector_scores, compared>>
    /\ UNCHANGED <<orchVars, agentVars, loopVars, streamVars, step3Vars,
                   validatorVars, mergerVars, mergeReportsVars, step1Vars,
                   lookupVars, prefsVars, sessionVars, pagingVars,
                   filterVars, overlapVars, limitVars, localVars>>

\* mark_issue_status
Step2Mark ==
    /\ ~compared
    /\ step2_calls < MaxToolCalls
    /\ \E status \in {"new", "recurring", "already_resolved"} :
         issue_status' = status
    /\ step2_calls' = step2_calls + 1
    /\ UNCHANGED <<historical_links, recommendation, lexical_scores,
                   vector_scores, compared>>
    /\ UNCHANGED <<orchVars, agentVars, loopVars, streamVars, step3Vars,
                   validatorVars, mergerVars, mergeReportsVars, step1Vars,
                   lookupVars, prefsVars, sessionVars, pagingVars,
                   filterVars, overlapVars, limitVars, localVars>>

InitStep2 ==
    /\ IdleOrch
    /\ IdleAgents
    /\ IdleLoop
    /\ IdleStream
    /\ Step3AtRest
    /\ IdleValidator
    /\ IdleMerger
    /\ IdleMergeReports
    /\ IdleStep1
    /\ IdleLookup
    /\ IdlePrefs
    /\ IdleSession
    /\ IdlePaging
    /\ IdleFilter
    /\ IdleOverlap
    /\ IdleLimit
    /\ IdleLocal
    /\ IdleStep2

NextStep2 ==
    \/ Step2Compare
    \/ Step2VectorSearch
    \/ Step2Link
    \/ Step2Mark

SpecStep2 == InitStep2 /\ [][NextStep2]_vars

(***************************************************************************)
(* dreaming/step2_comparison.py: _compare_non_agentic (SpecFallback)       *)
(***************************************************************************)
\* the thresholds of the non-agentic comparison
fallback_resolved_above == 90

fallback_recurring_above == 70

\* ComparisonStep._find_historical_matches: links of the scores above 0.5,
\* best first, at most five, and the status of the best
find_historical_matches(scores) ==
    LET links == SortDescending(Above(scores, 50))
    IN [links |-> FirstElements(links, 5),
        status |-> IF links = <<>> THEN "new"
                   ELSE IF links[1] > fallback_resolved_above
                   THEN "already_resolved"
                   ELSE IF links[1] > fallback_recurring_above THEN "recurring"
                   ELSE "new"]

\* the body of the loop of _compare_non_agentic for one issue
compare_issue(scores, redis_matches) ==
    LET found == find_historical_matches(scores)
        links == FirstElements(SortDescending(found.links \o redis_matches), 5)
    IN IF redis_matches = <<>> THEN found
       ELSE [links |-> links,
             status |-> IF links[1] > fallback_resolved_above
                        THEN "already_resolved"
                        ELSE IF links[1] > fallback_recurring_above
                        THEN "recurring"
                        ELSE found.status]

\* _compare_non_agentic handles the issue
FallbackCompare ==
    /\ ~compared
    /\ LET outcome == compare_issue(lexical_scores, vector_scores)
       IN /\ historical_links' = outcome.links
          /\ issue_status' = outcome.status
    /\ compared' = TRUE
    /\ UNCHANGED <<recommendation, step2_calls, lexical_scores, vector_scores>>
    /\ UNCHANGED <<orchVars, agentVars, loopVars, streamVars, step3Vars,
                   validatorVars, mergerVars, mergeReportsVars, step1Vars,
                   lookupVars, prefsVars, sessionVars, pagingVars,
                   filterVars, overlapVars, limitVars, localVars>>

\* the issue as Stage A reported it, the scores of the recent actions and
\* the results of the vector store
InitFallback ==
    /\ IdleOrch
    /\ IdleAgents
    /\ IdleLoop
    /\ IdleStream
    /\ Step3AtRest
    /\ IdleValidator
    /\ IdleMerger
    /\ IdleMergeReports
    /\ IdleStep1
    /\ IdleLookup
    /\ IdlePrefs
    /\ IdleSession
    /\ IdlePaging
    /\ IdleFilter
    /\ IdleOverlap
    /\ IdleLimit
    /\ IdleLocal
    /\ historical_links = <<>>
    /\ issue_status = "new"
    /\ recommendation = NoRecommendation
    /\ step2_calls = 0
    /\ \E len \in 0..MaxMatches : lexical_scores \in [1..len -> ScoreValues]
    /\ vector_scores \in VectorResults(MaxMatches)
    /\ compared = FALSE

NextFallback == FallbackCompare

SpecFallback == InitFallback /\ [][NextFallback]_vars

(***************************************************************************)
(* Properties of Stage B (SpecStep2, SpecFallback)                         *)
(***************************************************************************)
\* C25 as stated: the recommendation of the vector search is
\* already_resolved at a best score of 0.85, recurring at 0.84 and new at
\* 0.59.
C25_RecommendationAtThresholds ==
    recommendation.tool = "search_similar_resolutions_vector"
       => /\ recommendation.best_score = 85
                => recommendation.label = "already_resolved"
          /\ recommendation.best_score = 84 => recommendation.label = "recurring"
          /\ recommendation.best_score = 59 => recommendation.label = "new"

\* C25, amended: the recommendation is already_resolved only above 0.85
\* (so at 0.86), recurring at 0.85 and at 0.84, and new at 0.59.
C25_RecommendationAboveThresholds ==
    recommendation.tool = "search_similar_resolutions_vector"
       => /\ recommendation.best_score = 86
                => recommendation.label = "already_resolved"
          /\ recommendation.best_score \in {84, 85}
                => recommendation.label = "recurring"
          /\ recommendation.best_score = 59 => recommendation.label = "new"

\* C25 witness: a vector search whose best score is 0.85 recommended
\* recurring.
C25_Witness ==
    /\ recommendation.tool = "search_similar_resolutions_vector"
    /\ recommendation.best_score = 85
    /\ recommendation.label = "recurring"

\* the best of the scores the non-agentic comparison saw for the issue
BestScore ==
    LET all == SortDescending(lexical_scores \o vector_scores)
    IN IF all = <<>> THEN 0 ELSE all[1]

\* C26: the non-agentic comparison gives the issue the status of its best
\* score by the thresholds of the recommendation: already_resolved above
\* 0.85, recurring from 0.6, new below.
C26_FallbackUsesSameThresholds ==
    compared
       => issue_status = IF BestScore > already_resolved_above
                         THEN "already_resolved"
                         ELSE IF BestScore >= recurring_above THEN "recurring"
                         ELSE "new"

\* C27: every historical link of the issue has a relevance of at least 0.5
\* and at most 1.
C27_LinksAreRelevant ==
    \A k \in DOMAIN historical_links :
        historical_links[k] >= 50 /\ historical_links[k] <= 100

(***************************************************************************)
(* artifacts/generic_handler.py: update and append of a preferences file   *)
(* (SpecPreferences)                                                       *)
(***************************************************************************)
\* A line of the file is a heading "## name", an item "- text" or any other
\* text; the empty text is a blank line.  A string that spans several lines
\* is the sequence of its lines.
Heading(name) == [kind |-> "heading", text |-> name]

ItemLine(text) == [kind |-> "item", text |-> text]

Plain(text) == [kind |-> "plain", text |-> text]

Blank == Plain("")

Title == Plain("# Project Preferences")

\* f"- {item}" for an item given as the sequence of its lines
Dashed(item) ==
    [k \in DOMAIN item |-> IF k = 1 THEN ItemLine(item[k]) ELSE Plain(item[k])]

\* a dict in insertion order: the value of a key, and the assignment, which
\* keeps the place of a key the dict has
RECURSIVE DictGet(_, _)
DictGet(dict, key) ==
    IF Head(dict).key = key THEN Head(dict).value ELSE DictGet(Tail(dict), key)

HasKey(dict, key) == \E k \in DOMAIN dict : dict[k].key = key

DictSet(dict, key, value) ==
    IF HasKey(dict, key)
    THEN [k \in DOMAIN dict |->
            IF dict[k].key = key THEN [key |-> key, value |-> value]
            ELSE dict[k]]
    ELSE Append(dict, [key |-> key, value |-> value])

\* GenericHandler._parse_existing_sections: the loop over content.split("\n")
\* from line k on; an item of a section is one line
RECURSIVE parse_lines(_, _, _, _, _)
parse_lines(lines, k, sections, current_section, current_items) ==
    IF k > Len(lines)
    THEN IF current_items # <<>>
         THEN DictSet(sections, current_section, current_items)
         ELSE sections
    ELSE IF lines[k].kind = "heading"
    THEN parse_lines(lines, k + 1,
                     IF current_items # <<>>
                     THEN DictSet(sections, current_section, current_items)
                     ELSE sections,
                     lines[k].text, <<>>)
    ELSE IF lines[k] # Blank
    THEN parse_lines(lines, k + 1, sections, current_section,
                     Append(current_items, <<lines[k]>>))
    ELSE parse_lines(lines, k + 1, sections, current_section, current_items)

parse_existing_sections(lines) == parse_lines(lines, 1, <<>>, "General", <<>>)

\* _merge_sections, the sections of the new content: the items of the
\* preference, then the string value of the key "notes"
new_sections(content) ==
    LET preferences ==
            <<[key |-> content.section,
               value |-> [k \in DOMAIN content.items |-> Dashed(content.items[k])]]>>
    IN IF content.notes = <<>> THEN preferences
       ELSE IF HasKey(preferences, "Notes")
       THEN DictSet(preferences, "Notes",
                    Append(DictGet(preferences, "Notes"), content.notes))
       ELSE DictSet(preferences, "Notes", <<content.notes>>)

\* "Merge without duplicates" for the items of one section, with the set of
\* the existing items taken before the loop
RECURSIVE append_missing(_, _, _)
append_missing(merged_items, existing_set, items) ==
    IF items = <<>> THEN merged_items
    ELSE append_missing(IF Head(items) \in existing_set
                        THEN merged_items
                        ELSE Append(merged_items, Head(items)),
                        existing_set, Tail(items))

\* "Merge without duplicates" over the new sections
RECURSIVE merge_into(_, _)
merge_into(sections, new) ==
    IF new = <<>> THEN sections
    ELSE LET section == Head(new).key
             items == Head(new).value
         IN merge_into(
              IF HasKey(sections, section)
              THEN DictSet(sections, section,
                     append_missing(DictGet(sections, section),
                        {DictGet(sections, section)[k] :
                            k \in DOMAIN DictGet(sections, section)},
                        items))
              ELSE DictSet(sections, section, items),
              Tail(new))

\* the lines of a list of strings
RECURSIVE Flatten(_)
Flatten(texts) ==
    IF texts = <<>> THEN <<>> ELSE Head(texts) \o Flatten(Tail(texts))

\* "Rebuild content": the lines of every section
RECURSIVE section_lines(_)
section_lines(sections) ==
    IF sections = <<>> THEN <<>>
    ELSE (IF Head(sections).key # "General" \/ Head(sections).value # <<>>
          THEN <<Heading(Head(sections).key)>> \o Flatten(Head(sections).value)
                  \o <<Blank>>
          ELSE <<>>)
         \o section_lines(Tail(sections))

\* strip() of the joined lines: no blank line is left at either end
RECURSIVE Strip(_)
Strip(lines) ==
    IF lines = <<>> THEN <<>>
    ELSE IF Head(lines) = Blank THEN Strip(Tail(lines))
    ELSE IF lines[Len(lines)] = Blank THEN Strip(SubSeq(lines, 1, Len(lines) - 1))
    ELSE lines

\* GenericHandler._merge_sections
merge_sections(existing, new_content) ==
    Strip(<<Title, Blank>> \o section_lines(merge_into(existing, new_sections(new_content))))

\* GenericHandler.update and append on an existing preferences file
update(lines, content) == merge_sections(parse_existing_sections(lines), content)

\* the lines a file can be made of
FileLines == {Title, Blank, Heading("General"), Heading("X"), ItemLine("a")}

\* the strings of the content: one line, or two
ContentStrings == {<<"a">>, <<"a", "b">>}

\* the contents of the action: a preference for a section, with or without
\* a string for the key "notes"
PreferencesContents ==
    UNION {[section : {"General", "X"},
            items : [1..n -> ContentStrings],
            notes : {<<>>, <<Plain("a")>>, <<Plain("a"), Plain("b")>>}] :
           n \in 0..MaxItems}

\* the update or append action is applied to the file
ApplyPreferences ==
    /\ prefs_applied < 2
    /\ prefs_file' = update(prefs_file, prefs_content)
    /\ prefs_applied' = prefs_applied + 1
    /\ prefs_once' = IF prefs_applied = 0
                     THEN update(prefs_file, prefs_content) ELSE prefs_once
    /\ UNCHANGED prefs_content
    /\ UNCHANGED <<orchVars, agentVars, loopVars, streamVars, step3Vars,
                   validatorVars, mergerVars, mergeReportsVars, step1Vars,
                   lookupVars, step2Vars, sessionVars, pagingVars,
                   filterVars, overlapVars, limitVars, localVars>>

\* an existing file of up to MaxLines lines and a content
InitPreferences ==
    /\ IdleOrch
    /\ IdleAgents
    /\ IdleLoop
    /\ IdleStream
    /\ Step3AtRest
    /\ IdleValidator
    /\ IdleMerger
    /\ IdleMergeReports
    /\ IdleStep1
    /\ IdleLookup
    /\ IdleStep2
    /\ IdleSession
    /\ IdlePaging
    /\ IdleFilter
    /\ IdleOverlap
    /\ IdleLimit
    /\ IdleLocal
    /\ \E n \in 0..MaxLines : prefs_file \in [1..n -> FileLines]
    /\ prefs_content \in PreferencesContents
    /\ prefs_applied = 0
    /\ prefs_once = <<>>

NextPreferences == ApplyPreferences

SpecPreferences == InitPreferences /\ [][NextPreferences]_vars

(***************************************************************************)
(* Properties of the preferences merge (SpecPreferences)                   *)
(***************************************************************************)
\* C28: the file after the second application of the same content is the
\* file after the first.
C28_MergeIsIdempotent ==
    prefs_applied = 2 => prefs_file = prefs_once

(***************************************************************************)
(* A cycle in which the file writes of Stage C can raise (SpecWriteFailure) *)
(***************************************************************************)
\* the cycles of Spec that start without a conversation limit and with a
\* Redis server that answers
InitWriteFailure ==
    /\ Init
    /\ conversation_limit = None
    /\ redis_reachable

NextWriteFailure ==
    \/ Next
    \/ StageCSaveFails
    \/ StageCApplyFails

SpecWriteFailure == InitWriteFailure /\ [][NextWriteFailure]_vars

\* C29: when run() has returned from a cycle in which a write of the
\* resolution JSON or of an artifact file raised during Stage C, the result
\* has success = false and state.json holds, for every connector whose
\* Stage C write raised, the connector state it held when the cycle started.
C29_WriteFailureFailsCycle ==
    (pc = "returned" /\ write_failed # {})
        => /\ ~result.success
           /\ \A c \in write_failed :
                load_state(state_file).connectors[c]
                    = load_state(StateAtStart).connectors[c]

(***************************************************************************)
(* connectors/claude_code.py: _parse_session_file (SpecSession)            *)
(***************************************************************************)
\* A line of the file: what json.loads makes of it, and for an object its
\* role and its timestamp.  json is "empty" (a blank line), "invalid"
\* (JSONDecodeError), "value" (an array, a number, a string or null) or
\* "object".
Line(json, role, timestamp) ==
    [json |-> json, role |-> role, timestamp |-> timestamp]

\* role of an object: no role and no type, a number, a text that is no known
\* role, or "user"
Roles == {"absent", "number", "zzz", "user"}

\* timestamp of an object: none, a text that is no ISO date, a number of
\* seconds beyond the last year, an ISO date without zone, one with "Z"
Timestamps == {"absent", "not_iso", "huge", "2024-01-01T00:00:01", "2024-01-01T00:00:02Z"}

SessionLines ==
    {Line("empty", "absent", "absent"), Line("invalid", "absent", "absent"),
     Line("value", "absent", "absent")}
        \cup {Line("object", role, timestamp) :
                role \in Roles, timestamp \in Timestamps}

\* the outcome of a call: a value, or an exception
Value(value) == [raised |-> FALSE, value |-> value]

Exception(value) == [raised |-> TRUE, value |-> value]

\* ClaudeCodeConnector._parse_message_role: role.lower() of a number raises
parse_message_role(role) ==
    IF role = "number" THEN Exception("human")
    ELSE IF role = "user" THEN Value("human")
    ELSE Value("human")

\* ClaudeCodeConnector._parse_timestamp: fromtimestamp raises for a number
\* out of range, a text that is no ISO date gives None
parse_timestamp(ts) ==
    IF ts = "absent" THEN Value(NoTimestamp)
    ELSE IF ts = "huge" THEN Exception(NoTimestamp)
    ELSE IF ts = "2024-01-01T00:00:01" THEN Value(Naive(1))
    ELSE IF ts = "2024-01-01T00:00:02Z" THEN Value(Aware(2))
    ELSE Value(NoTimestamp)

ConversationMessage(line, role, timestamp) ==
    [line |-> line, role |-> role, timestamp |-> timestamp]

NoMessage == ConversationMessage(0, "none", NoTimestamp)

\* ClaudeCodeConnector._parse_message for line k of the file: a message,
\* None (NoMessage), or an exception; msg_data.get of a value that is no
\* object raises
parse_message(k, msg_data) ==
    IF msg_data.json # "object" THEN Exception(NoMessage)
    ELSE IF msg_data.role = "absent" THEN Value(NoMessage)
    ELSE IF parse_message_role(msg_data.role).raised THEN Exception(NoMessage)
    ELSE IF parse_timestamp(msg_data.timestamp).raised THEN Exception(NoMessage)
    ELSE Value(ConversationMessage(k, parse_message_role(msg_data.role).value,
                                   parse_timestamp(msg_data.timestamp).value))

\* a < b of two datetimes raises TypeError when only one has a zone
Comparable(a, b) == a.aware = b.aware

\* the modification time of the file
st_mtime == Naive(3)

\* the loop of _parse_session_file from line k on; acc holds messages,
\* started_at and ended_at, and raised once an exception left the loop
RECURSIVE parse_from(_, _, _)
parse_from(lines, k, acc) ==
    IF k > Len(lines) \/ acc.raised THEN acc
    ELSE IF lines[k].json \in {"empty", "invalid"}
    THEN parse_from(lines, k + 1, acc)
    ELSE LET msg == parse_message(k, lines[k])
             ts == msg.value.timestamp
         IN IF msg.raised THEN [acc EXCEPT !.raised = TRUE]
            ELSE IF msg.value = NoMessage THEN parse_from(lines, k + 1, acc)
            ELSE IF ts = NoTimestamp
            THEN parse_from(lines, k + 1,
                            [acc EXCEPT !.messages = Append(@, msg.value)])
            ELSE IF acc.started_at # NoTimestamp /\ ~Comparable(ts, acc.started_at)
            THEN [acc EXCEPT !.raised = TRUE]
            ELSE parse_from(lines, k + 1,
                   [acc EXCEPT
                      !.messages = Append(@, msg.value),
                      !.started_at = IF @ = NoTimestamp \/ ts.value < @.value
                                     THEN ts ELSE @,
                      !.ended_at = IF @ = NoTimestamp \/ ts.value > @.value
                                   THEN ts ELSE @])

\* ClaudeCodeConnector._parse_session_file
parse_session_file(lines) ==
    LET acc == parse_from(lines, 1,
                   [raised |-> FALSE, messages |-> <<>>,
                    started_at |-> NoTimestamp, ended_at |-> NoTimestamp])
    IN IF acc.raised \/ acc.messages = <<>> THEN NoConversation
       ELSE [returned |-> TRUE, messages |-> acc.messages,
             started_at |-> IF acc.started_at = NoTimestamp
                            THEN st_mtime ELSE acc.started_at,
             ended_at |-> IF acc.ended_at = NoTimestamp
                          THEN st_mtime ELSE acc.ended_at]

\* the file is parsed
ParseSessionFile ==
    /\ session_pc = "idle"
    /\ conversation' = parse_session_file(session_file)
    /\ session_pc' = "returned"
    /\ UNCHANGED session_file
    /\ UNCHANGED <<orchVars, agentVars, loopVars, streamVars, step3Vars,
                   validatorVars, mergerVars, mergeReportsVars, step1Vars,
                   lookupVars, step2Vars, prefsVars, pagingVars, filterVars,
                   overlapVars, limitVars, localVars>>

\* a session file of up to MaxSessionLines lines
InitSession ==
    /\ IdleOrch
    /\ IdleAgents
    /\ IdleLoop
    /\ IdleStream
    /\ Step3AtRest
    /\ IdleValidator
    /\ IdleMerger
    /\ IdleMergeReports
    /\ IdleStep1
    /\ IdleLookup
    /\ IdleStep2
    /\ IdlePrefs
    /\ IdlePaging
    /\ IdleFilter
    /\ IdleOverlap
    /\ IdleLimit
    /\ IdleLocal
    /\ \E n \in 0..MaxSessionLines : session_file \in [1..n -> SessionLines]
    /\ session_pc = "idle"
    /\ conversation = NoConversation

NextSession == ParseSessionFile

SpecSession == InitSession /\ [][NextSession]_vars

(***************************************************************************)
(* Properties of the session file parse (SpecSession)                      *)
(***************************************************************************)
\* the lines that decode to a message with a usable role and timestamp
Decodable(line) ==
    /\ line.json = "object"
    /\ line.role = "user"
    /\ line.timestamp \in {"absent", "2024-01-01T00:00:01", "2024-01-01T00:00:02Z"}

\* the line numbers of a list of messages
RECURSIVE LinesOf(_)
LinesOf(msgs) ==
    IF msgs = <<>> THEN <<>> ELSE <<Head(msgs).line>> \o LinesOf(Tail(msgs))

\* the numbers of the decodable lines of a file, in file order
RECURSIVE DecodableFrom(_, _)
DecodableFrom(lines, k) ==
    IF k > Len(lines) THEN <<>>
    ELSE (IF Decodable(lines[k]) THEN <<k>> ELSE <<>>)
            \o DecodableFrom(lines, k + 1)

FromDecodable(msg) == Decodable(session_file[msg.line])

\* C30: once a session file is parsed, the messages returned for its
\* decodable lines are the messages of all its decodable lines, in file
\* order, whatever the other lines are.
C30_BadLinesAffectOnlyThemselves ==
    session_pc = "returned"
        => LinesOf(SelectSeq(conversation.messages, FromDecodable))
              = DecodableFrom(session_file, 1)

(***************************************************************************)
(* connectors/claude_code.py: extract_conversations with a cursor          *)
(* (SpecPaging)                                                            *)
(***************************************************************************)
\* a session file: its path is its place in the directory listing
SessionFile(path, mtime) == [path |-> path, mtime |-> mtime]

\* the *.jsonl files of the project directories that pass the since filter,
\* in the order the directory gives them
session_files(mtimes, since) ==
    SelectSeq([k \in DOMAIN mtimes |-> SessionFile(k, mtimes[k])],
              LAMBDA f : since = None \/ ~(f.mtime < since))

\* list.sort(key=st_mtime, reverse=True): files of equal mtime keep their order
RECURSIVE InsertNewestFirst(_, _)
InsertNewestFirst(sorted, f) ==
    IF sorted = <<>> THEN <<f>>
    ELSE IF Head(sorted).mtime >= f.mtime
    THEN <<Head(sorted)>> \o InsertNewestFirst(Tail(sorted), f)
    ELSE <<f>> \o sorted

RECURSIVE sort_newest_first(_)
sort_newest_first(fs) ==
    IF fs = <<>> THEN <<>>
    ELSE InsertNewestFirst(sort_newest_first(SubSeq(fs, 1, Len(fs) - 1)),
                           fs[Len(fs)])

\* session_files.index(cursor_path): 0 stands for the ValueError
index(fs, path) ==
    IF \E k \in DOMAIN fs : fs[k].path = path
    THEN CHOOSE k \in DOMAIN fs : fs[k].path = path
    ELSE 0

\* "Handle cursor", with the cursor's own file kept in the list
after_cursor_inclusive(fs, cursor) ==
    IF cursor # NoCursor /\ index(fs, cursor) # 0
    THEN SubSeq(fs, index(fs, cursor), Len(fs))
    ELSE fs

\* "Handle cursor": session_files[idx + 1:], the whole list when the cursor
\* is None or not in the list
after_cursor(fs, cursor) ==
    IF cursor # NoCursor /\ index(fs, cursor) # 0
    THEN SubSeq(fs, index(fs, cursor) + 1, Len(fs))
    ELSE fs

\* ClaudeCodeConnector.extract_conversations(since, cursor, limit): the files
\* of the batch, has_more and the next cursor
extract_page(mtimes, since, cursor, limit) ==
    LET remaining == after_cursor(sort_newest_first(session_files(mtimes, since)),
                                  cursor)
        more == limit # None /\ Len(remaining) > limit
        taken == IF more THEN FirstElements(remaining, limit) ELSE remaining
    IN [files |-> taken,
        has_more |-> more,
        cursor |-> IF more /\ taken # <<>> THEN taken[Len(taken)].path
                   ELSE NoCursor]

\* the caller extracts the first batch, or the batch after the cursor of the
\* previous one while has_more is true
ExtractPage ==
    /\ batches = 0 \/ has_more
    /\ LET page == extract_page(listing, page_since, next_cursor, page_limit)
       IN /\ page_batch' = page.files
          /\ has_more' = page.has_more
          /\ next_cursor' = page.cursor
          /\ visited' = visited \o page.files
    /\ batch_cursor' = next_cursor
    /\ batches' = batches + 1
    /\ UNCHANGED <<listing, page_since, page_limit>>
    /\ UNCHANGED <<orchVars, agentVars, loopVars, streamVars, step3Vars,
                   validatorVars, mergerVars, mergeReportsVars, step1Vars,
                   lookupVars, step2Vars, prefsVars, sessionVars, filterVars,
                   overlapVars, limitVars, localVars>>

\* a directory of up to MaxFiles session files, a since and a positive limit
InitPaging ==
    /\ IdleOrch
    /\ IdleAgents
    /\ IdleLoop
    /\ IdleStream
    /\ Step3AtRest
    /\ IdleValidator
    /\ IdleMerger
    /\ IdleMergeReports
    /\ IdleStep1
    /\ IdleLookup
    /\ IdleStep2
    /\ IdlePrefs
    /\ IdleSession
    /\ IdleFilter
    /\ IdleOverlap
    /\ IdleLimit
    /\ IdleLocal
    /\ \E n \in 0..MaxFiles : listing \in [1..n -> 1..3]
    /\ page_since \in {None, 2}
    /\ page_limit \in 1..MaxLimit
    /\ page_batch = <<>>
    /\ batch_cursor = NoCursor
    /\ next_cursor = NoCursor
    /\ has_more = FALSE
    /\ batches = 0
    /\ visited = <<>>

NextPaging == ExtractPage

SpecPaging == InitPaging /\ [][NextPaging]_vars

(***************************************************************************)
(* Properties of the paginated extraction (SpecPaging)                     *)
(***************************************************************************)
\* the files matching since, newest first
MatchingNewestFirst == sort_newest_first(session_files(listing, page_since))

\* C31: after every batch of a paginated extraction over an unchanged
\* directory, the files visited so far are the first files of the matching
\* files in newest-first order, each once; has_more is true exactly when
\* matching files remain; and a batch given a cursor starts at the file that
\* follows the cursor's file.
C31_PagesVisitEveryFileOnce ==
    batches > 0
        => /\ Len(visited) <= Len(MatchingNewestFirst)
           /\ visited = FirstElements(MatchingNewestFirst, Len(visited))
           /\ has_more <=> Len(visited) < Len(MatchingNewestFirst)
           /\ \A i, j \in DOMAIN visited : i < j => visited[i].mtime >= visited[j].mtime
           /\ (batch_cursor # NoCursor /\ page_batch # <<>>)
                => index(MatchingNewestFirst, page_batch[1].path)
                      = index(MatchingNewestFirst, batch_cursor) + 1

\* C31 witness: three files, two of them of equal mtime, were visited in two
\* or more batches and none remains.
C31_Witness ==
    /\ batches >= 2
    /\ ~has_more
    /\ Len(visited) >= 3
    /\ visited = MatchingNewestFirst
    /\ \E i, j \in DOMAIN visited : i # j /\ visited[i].mtime = visited[j].mtime

(***************************************************************************)
(* dreaming/tools/step2_tools.py: include_issue, exclude_issue, and the    *)
(* filter of ComparisonStep.compare (SpecFilter)                           *)
(***************************************************************************)
\* the two sets after a call, and whether the issue was found
Filtering(included, excluded, found) ==
    [included |-> included, excluded |-> excluded, found |-> found]

\* Step2Context.include_issue
include_issue(ids, included, excluded, issue_id) ==
    LET issue == find_issue(ids, issue_id)
    IN IF issue = NotFound THEN Filtering(included, excluded, NotFound)
       ELSE Filtering(included \cup {issue}, excluded \ {issue}, issue)

\* exclude_issue without the discard from the included set
exclude_issue_keeping(ids, included, excluded, issue_id) ==
    LET issue == find_issue(ids, issue_id)
    IN IF issue = NotFound THEN Filtering(included, excluded, NotFound)
       ELSE Filtering(included, excluded \cup {issue}, issue)

\* Step2Context.exclude_issue
exclude_issue(ids, included, excluded, issue_id) ==
    LET issue == find_issue(ids, issue_id)
    IN IF issue = NotFound THEN Filtering(included, excluded, NotFound)
       ELSE Filtering(included \ {issue}, excluded \cup {issue}, issue)

\* the filter of compare that only drops the excluded issues
filter_issues_permissive(ids, included, excluded) ==
    SelectSeq(ids, LAMBDA id : id \notin excluded)

\* ComparisonStep.compare, "Filter out excluded issues"
filter_issues(ids, included, excluded) ==
    IF included # {}
    THEN SelectSeq(ids, LAMBDA id : id \in included)
    ELSE SelectSeq(ids, LAMBDA id : id \notin excluded)

\* Step2Context.get_filtering_summary: the class of an issue
filtering_class(id, included, excluded) ==
    IF id \in included THEN "included"
    ELSE IF id \in excluded THEN "excluded"
    ELSE "pending"

\* the class chosen by a call that found its issue
Decide(found, class) ==
    IF found = NotFound THEN decided
    ELSE [decided EXCEPT ![CHOOSE k \in DOMAIN context_issues :
                                context_issues[k] = found] = class]

\* the agent calls include_issue
FilterInclude ==
    /\ filter_pc = "agent"
    /\ filter_calls < MaxToolCalls
    /\ \E id \in GivenIds :
         LET after == include_issue(context_issues, included_issues,
                                    excluded_issues, id)
         IN /\ included_issues' = after.included
            /\ excluded_issues' = after.excluded
            /\ decided' = Decide(after.found, "included")
    /\ filter_calls' = filter_calls + 1
    /\ UNCHANGED <<context_issues, filter_pc, kept_issues>>
    /\ UNCHANGED <<orchVars, agentVars, loopVars, streamVars, step3Vars,
                   validatorVars, mergerVars, mergeReportsVars, step1Vars,
                   lookupVars, step2Vars, prefsVars, sessionVars, pagingVars,
                   overlapVars, limitVars, localVars>>

\* the agent calls exclude_issue
FilterExclude ==
    /\ filter_pc = "agent"
    /\ filter_calls < MaxToolCalls
    /\ \E id \in GivenIds :
         LET after == exclude_issue(context_issues, included_issues,
                                    excluded_issues, id)
         IN /\ included_issues' = after.included
            /\ excluded_issues' = after.excluded
            /\ decided' = Decide(after.found, "excluded")
    /\ filter_calls' = filter_calls + 1
    /\ UNCHANGED <<context_issues, filter_pc, kept_issues>>
    /\ UNCHANGED <<orchVars, agentVars, loopVars, streamVars, step3Vars,
                   validatorVars, mergerVars, mergeReportsVars, step1Vars,
                   lookupVars, step2Vars, prefsVars, sessionVars, pagingVars,
                   overlapVars, limitVars, localVars>>

\* the agent returns and compare filters the issues of the report
FilterReturn ==
    /\ filter_pc = "agent"
    /\ kept_issues' = filter_issues(context_issues, included_issues,
                                    excluded_issues)
    /\ filter_pc' = "returned"
    /\ UNCHANGED <<context_issues, included_issues, excluded_issues, decided,
                   filter_calls>>
    /\ UNCHANGED <<orchVars, agentVars, loopVars, streamVars, step3Vars,
                   validatorVars, mergerVars, mergeReportsVars, step1Vars,
                   lookupVars, step2Vars, prefsVars, sessionVars, pagingVars,
                   overlapVars, limitVars, localVars>>

\* a report of up to MaxIds issues of distinct ids is given to the agent
InitFilter ==
    /\ IdleOrch
    /\ IdleAgents
    /\ IdleLoop
    /\ IdleStream
    /\ Step3AtRest
    /\ IdleValidator
    /\ IdleMerger
    /\ IdleMergeReports
    /\ IdleStep1
    /\ IdleLookup
    /\ IdleStep2
    /\ IdlePrefs
    /\ IdleSession
    /\ IdlePaging
    /\ IdleOverlap
    /\ IdleLimit
    /\ IdleLocal
    /\ \E n \in 0..MaxIds :
         /\ context_issues \in [1..n -> Ids]
         /\ \A i, j \in 1..n : i # j => context_issues[i] # context_issues[j]
         /\ decided = [k \in 1..n |-> "pending"]
    /\ included_issues = {}
    /\ excluded_issues = {}
    /\ filter_calls = 0
    /\ filter_pc = "agent"
    /\ kept_issues = <<>>

NextFilter == FilterInclude \/ FilterExclude \/ FilterReturn

SpecFilter == InitFilter /\ [][NextFilter]_vars

(***************************************************************************)
(* Properties of the Stage B filtering (SpecFilter)                        *)
(***************************************************************************)
ContextIds == {context_issues[k] : k \in DOMAIN context_issues}

KeptIds == {kept_issues[k] : k \in DOMAIN kept_issues}

\* the place of an id of the report
PlaceOf(id) == CHOOSE k \in DOMAIN context_issues : context_issues[k] = id

\* C32: once the Stage B agent has returned, an issue of the report is kept
\* exactly when it is included, if any issue is included, and exactly when
\* it is not excluded otherwise; the kept issues are in report order, each
\* once.
C32_KeptIssuesFollowTheSets ==
    filter_pc = "returned"
        => /\ KeptIds \subseteq ContextIds
           /\ \A id \in ContextIds :
                id \in KeptIds <=> IF included_issues # {}
                                   THEN id \in included_issues
                                   ELSE id \notin excluded_issues
           /\ \A i, j \in DOMAIN kept_issues :
                i < j => PlaceOf(kept_issues[i]) < PlaceOf(kept_issues[j])

\* C32 witness: the agent returned with one issue included and the other
\* left pending, and only the included one is kept.
C32_Witness ==
    /\ filter_pc = "returned"
    /\ Len(context_issues) >= 2
    /\ included_issues # {}
    /\ \E id \in ContextIds : id \notin included_issues /\ id \notin excluded_issues
    /\ Len(kept_issues) = Cardinality(included_issues)

\* C33: the included and the excluded set are disjoint, hold only ids of
\* the report, and every issue of the report is in the class its last
\* successful include or exclude call chose (pending without such a call).
C33_FilterClassesPartition ==
    /\ included_issues \cap excluded_issues = {}
    /\ included_issues \cup excluded_issues \subseteq ContextIds
    /\ \A k \in DOMAIN context_issues :
         filtering_class(context_issues[k], included_issues, excluded_issues)
            = decided[k]

\* C33 witness: after two or more calls one issue of the report is excluded
\* and another is included.
C33_Witness ==
    /\ filter_calls >= 2
    /\ \E k \in DOMAIN context_issues :
         /\ decided[k] = "excluded"
         /\ context_issues[k] \in excluded_issues
         /\ context_issues[k] \notin included_issues
    /\ \E k \in DOMAIN context_issues : decided[k] = "included"

(***************************************************************************)
(* Properties of the agent ids of one Stage A (SpecAgents)                 *)
(***************************************************************************)
\* C34: the agent ids of the per-project agents of one Stage A are pairwise
\* distinct.
C34_AgentIdsAreDistinct ==
    \A i, j \in DOMAIN agents :
        i # j => agents[i].agent_id # agents[j].agent_id

(***************************************************************************)
(* api/server.py and dreaming/orchestrator.py: cycles that overlap, each   *)
(* a DreamingOrchestrator with a StateManager of its own (SpecOverlap).    *)
(* A cycle gives up control while it awaits its connector and its agents.  *)
(***************************************************************************)
\* the connector all the cycles process
TheConnector == Min(ConnIds)

\* a cycle before its first step
NewCycle == [pc |-> "start", state |-> Unloaded, batch |-> 0]

\* the time of the next write
NowOf(n) == MaxNow + n

\* _extract_conversations of cycle k: the first use of state_manager.state
\* loads state.json; the connector returns a batch of conversations
CycleExtract(k) ==
    /\ k \in DOMAIN cycles
    /\ cycles[k].pc = "start"
    /\ \E n \in 1..MaxBatch :
         cycles' = [cycles EXCEPT
                      ![k].state = Loaded(get_connector_state(
                                      StateOf(cycles[k].state, shared_file),
                                      TheConnector)),
                      ![k].batch = n,
                      ![k].pc = "extracted"]
    /\ UNCHANGED <<shared_file, file_before, saves>>
    /\ UNCHANGED <<orchVars, agentVars, loopVars, streamVars, step3Vars,
                   validatorVars, mergerVars, mergeReportsVars, step1Vars,
                   lookupVars, step2Vars, prefsVars, sessionVars, pagingVars,
                   filterVars, limitVars, localVars>>

\* run() of cycle k after its stages: update_connector_state and its save
CycleUpdateConnector(k) ==
    /\ k \in DOMAIN cycles
    /\ cycles[k].pc = "extracted"
    /\ LET st == update_connector_state(cycles[k].state.doc, TheConnector,
                                        NowOf(saves), cycles[k].batch,
                                        NowOf(saves))
       IN /\ cycles' = [cycles EXCEPT ![k].state = Loaded(st),
                                      ![k].pc = "updated"]
          /\ shared_file' = File(st)
    /\ saves' = saves + 1
    /\ UNCHANGED file_before
    /\ UNCHANGED <<orchVars, agentVars, loopVars, streamVars, step3Vars,
                   validatorVars, mergerVars, mergeReportsVars, step1Vars,
                   lookupVars, step2Vars, prefsVars, sessionVars, pagingVars,
                   filterVars, limitVars, localVars>>

\* run() of cycle k: update_dreaming_state and its save, then the result
CycleUpdateDreaming(k) ==
    /\ k \in DOMAIN cycles
    /\ cycles[k].pc = "updated"
    /\ LET st == update_dreaming_state(cycles[k].state.doc, RunId, 0, 0,
                                       NowOf(saves))
       IN /\ cycles' = [cycles EXCEPT ![k].state = Loaded(st),
                                      ![k].pc = "returned"]
          /\ shared_file' = File(st)
    /\ saves' = saves + 1
    /\ UNCHANGED file_before
    /\ UNCHANGED <<orchVars, agentVars, loopVars, streamVars, step3Vars,
                   validatorVars, mergerVars, mergeReportsVars, step1Vars,
                   lookupVars, step2Vars, prefsVars, sessionVars, pagingVars,
                   filterVars, limitVars, localVars>>

\* MaxCycles cycles are triggered on one runtime directory
InitOverlap ==
    /\ IdleOrch
    /\ IdleAgents
    /\ IdleLoop
    /\ IdleStream
    /\ Step3AtRest
    /\ IdleValidator
    /\ IdleMerger
    /\ IdleMergeReports
    /\ IdleStep1
    /\ IdleLookup
    /\ IdleStep2
    /\ IdlePrefs
    /\ IdleSession
    /\ IdlePaging
    /\ IdleFilter
    /\ IdleLimit
    /\ IdleLocal
    /\ shared_file \in {NoFile, File(EarlierState)}
    /\ file_before = shared_file
    /\ cycles = [k \in 1..MaxCycles |-> NewCycle]
    /\ saves = 0

NextOverlap ==
    \/ \E k \in 1..MaxCycles : CycleExtract(k)
    \/ \E k \in 1..MaxCycles : CycleUpdateConnector(k)
    \/ \E k \in 1..MaxCycles : CycleUpdateDreaming(k)

SpecOverlap == InitOverlap /\ [][NextOverlap]_vars

(***************************************************************************)
(* Properties of overlapping cycles (SpecOverlap)                          *)
(***************************************************************************)
\* the conversations of the batches of the cycles 1..k
RECURSIVE BatchesUpTo(_)
BatchesUpTo(k) == IF k = 0 THEN 0 ELSE cycles[k].batch + BatchesUpTo(k - 1)

\* C35: when all the cycles have returned, state.json holds a total_runs
\* grown by the number of cycles and, for the connector, a
\* conversations_processed grown by the sum of their batches.
C35_NoStateWriteIsLost ==
    (\A k \in DOMAIN cycles : cycles[k].pc = "returned")
        => LET before == get_connector_state(load_state(file_before), TheConnector)
               after == load_state(shared_file)
           IN /\ after.dreaming.total_runs
                    = before.dreaming.total_runs + Len(cycles)
              /\ after.connectors[TheConnector].conversations_processed
                    = before.connectors[TheConnector].conversations_processed
                         + BatchesUpTo(Len(cycles))

(***************************************************************************)
(* dreaming/orchestrator.py: successive cycles with a conversation limit   *)
(* over one projects directory (SpecLimit)                                 *)
(***************************************************************************)
\* the sessions that pass the since filter of extract_conversations
Matching(fs, since) == {f \in fs : since = None \/ f.mtime >= since}

\* one cycle that is not a dry run: _extract_conversations with the limit
\* (since is the connector's last_processed), the stages, and the update of
\* the connector state, which run() skips when Stage A reports no issue
LimitedCycle ==
    /\ limited_runs < MaxCycles
    /\ LET st == get_connector_state(persisted, TheConnector)
           since == st.connectors[TheConnector].last_processed
       IN \E batch \in extract_conversations(project_files, since, limited_to) :
            /\ analyzed' = analyzed \cup batch
            /\ left_out' = (left_out \cup Matching(project_files, since)) \ (analyzed \cup batch)
            /\ \E issues_found \in BOOLEAN :
                 persisted' =
                    IF batch # {} /\ issues_found
                    THEN update_connector_state(st, TheConnector, LatestTs(batch),
                                                Cardinality(batch), NowOf(limited_runs))
                    ELSE st
    /\ limited_runs' = limited_runs + 1
    /\ UNCHANGED <<project_files, limited_to>>
    /\ UNCHANGED <<orchVars, agentVars, loopVars, streamVars, step3Vars,
                   validatorVars, mergerVars, mergeReportsVars, step1Vars,
                   lookupVars, step2Vars, prefsVars, sessionVars, pagingVars,
                   filterVars, overlapVars, localVars>>

\* up to MaxFiles sessions, each with its time of last change, a limit, and
\* a connector that was never processed
InitLimit ==
    /\ IdleOrch
    /\ IdleAgents
    /\ IdleLoop
    /\ IdleStream
    /\ Step3AtRest
    /\ IdleValidator
    /\ IdleMerger
    /\ IdleMergeReports
    /\ IdleStep1
    /\ IdleLookup
    /\ IdleStep2
    /\ IdlePrefs
    /\ IdleSession
    /\ IdlePaging
    /\ IdleFilter
    /\ IdleOverlap
    /\ IdleLocal
    /\ \E n \in 0..MaxFiles : \E mtimes \in [1..n -> 1..MaxFiles] :
         project_files = {Session(k, mtimes[k], mtimes[k], <<"a", "proj">>) : k \in 1..n}
    /\ limited_to \in 1..MaxLimit
    /\ persisted = ProcessingState
    /\ analyzed = {}
    /\ left_out = {}
    /\ limited_runs = 0

NextLimit == LimitedCycle

SpecLimit == InitLimit /\ [][NextLimit]_vars

(***************************************************************************)
(* Properties of limited cycles (SpecLimit)                                *)
(***************************************************************************)
\* C36: a session that a limit left out of a batch, and that no cycle has
\* analyzed since, still matches the window of the next cycle.
C36_LeftOutSessionsStayInWindow ==
    \A f \in left_out :
        f \in Matching(project_files,
                       persisted.connectors[TheConnector].last_processed)

(***************************************************************************)
(* Properties of the result of one cycle (Spec)                            *)
(***************************************************************************)
\* C37: whenever run() has returned, the result has an error text exactly
\* when its success is false.
C37_ErrorExactlyOnFailure ==
    pc = "returned" => (result.error # "none" <=> ~result.success)

(***************************************************************************)
(* Stage C on an issue that is project-specific or global (SpecLocalChange)*)
(***************************************************************************)
\* the report holds one issue to resolve, project-specific or global, and
\* the Stage C context is as generate() creates it
InitLocalChange ==
    /\ IdleOrch
    /\ IdleAgents
    /\ IdleLoop
    /\ IdleStream
    /\ Step3AtRest
    /\ IdleValidator
    /\ IdleMerger
    /\ IdleMergeReports
    /\ IdleStep1
    /\ IdleLookup
    /\ IdleStep2
    /\ IdlePrefs
    /\ IdleSession
    /\ IdlePaging
    /\ IdleFilter
    /\ IdleOverlap
    /\ IdleLimit
    /\ issue_local_change \in BOOLEAN

SpecLocalChange == InitLocalChange /\ [][NextStep3]_vars

\* json.dumps of a bool, as the saved document holds it
JsonBool(b) == IF b THEN "true" ELSE "false"

\* C38: every action of the saved document whose issue references all name
\* the issue to resolve has the local_change of that issue.
C38_LocalChangeFollowsIssues ==
    saved # NoDocument
       => \A action \in ActionsOf(saved.data) :
             (/\ action["issue_refs"] # <<>>
              /\ \A k \in DOMAIN action["issue_refs"] :
                    action["issue_refs"][k] \in IssuesToResolve)
                => action["local_change"] = JsonBool(issue_local_change)
====
